---- MODULE Spec2Model ----
(***************************************************************************)
(* A model of the Cordy execution pipeline: expression trees, the          *)
(* expression optimizer, the bytecode emitter and the stack machine.       *)
(*                                                                         *)
(* Values, expressions and opcodes are records tagged by a string field;   *)
(* strings of the language are sequences of one-character strings so that  *)
(* concatenation and repetition are computed, not assumed.                 *)
(***************************************************************************)
EXTENDS Integers, Sequences, FiniteSets, TLC

VARIABLES
    src,        \* the expression statement handed to the compiler
    enable_opt, \* compile(enable_optimization, ..): whether Optimize runs
    ast,        \* the expression after the (optional) optimizer pass
    code,       \* VirtualMachine.code: the emitted opcodes
    ip,         \* VirtualMachine.ip
    stack,      \* VirtualMachine.stack
    globals,    \* VirtualMachine.globals
    output,     \* what has been written to VirtualMachine.write, in order
    status,     \* "parsed" | "optimized" | "running" | "ok" | "error" | "panic"
    error,      \* the RuntimeErrorType returned by run, or NoError
    last,       \* the index and opcode run() executed last (history)
    trace,      \* the instruction indices run() has executed, in order (history)
    frame_ip,   \* the machine with user functions: its ip
    frame_stack, \* the machine with user functions: its value stack
    call_stack, \* the machine with user functions: its call frames, innermost last
    entered,    \* for each live frame, the call that entered it (history)
    returned,   \* when the last opcode was a Return: the call it ended (history)
    op_call,    \* a call of one operator function: its arguments and its outcome
    heap,       \* the shared containers (Rc<RefCell<..>>): contents and borrow state
    lib         \* a library call on the containers: its position, locals and outcome

pipeline_vars == <<src, enable_opt, ast, code, ip, stack, globals, output, status, error, last, trace>>
frame_vars == <<frame_ip, frame_stack, call_stack, entered, returned>>
library_vars == <<op_call, heap, lib>>
vars == <<pipeline_vars, frame_vars, library_vars>>

\* no library function is being called
NoCall == [f |-> "none"]
NoLibrary ==
    /\ op_call = NoCall
    /\ heap = <<>>
    /\ lib = NoCall

----------------------------------------------------------------------------
(* Bounds of the model                                                      *)

\* integers of source programs range over -MaxInt .. MaxInt
MaxInt == 2
\* the longest run of a program, in executed opcodes
MaxSteps == 40

----------------------------------------------------------------------------
(* Values (vm::value::Value)                                                *)

VNil == [t |-> "nil"]
VBool(b) == [t |-> "bool", v |-> b]
VInt(i) == [t |-> "int", v |-> i]
VStr(s) == [t |-> "str", v |-> s]
VBinding(f) == [t |-> "binding", f |-> f]
\* PartialBinding(b, nargs): nargs holds the applied arguments LAST FIRST
VPartial(f, held) == [t |-> "partial", f |-> f, args |-> held]
\* the result of a library function whose body is not modelled: the function
\* and the arguments it received, in the order it received them
VTerm(f, args) == [t |-> "term", f |-> f, args |-> args]

NoError == [t |-> "none"]

is_bool(v) == v.t = "bool"
is_int(v) == v.t = "int"
is_str(v) == v.t = "str"

\* Value::as_bool: the truthiness used by the conditional jumps and by the
\* optimizer's dead code elimination
as_bool(v) ==
    CASE v.t = "nil" -> FALSE
      [] v.t = "bool" -> v.v
      [] v.t = "int" -> v.v # 0
      [] v.t = "str" -> Len(v.v) > 0
      [] v.t = "list" -> Len(v.v) > 0
      [] OTHER -> TRUE

Digits == <<"0", "1", "2", "3", "4", "5", "6", "7", "8", "9">>

RECURSIVE NatToStr(_)
NatToStr(n) == IF n < 10 THEN <<Digits[n + 1]>> ELSE NatToStr(n \div 10) \o <<Digits[(n % 10) + 1]>>

IntToStr(i) == IF i < 0 THEN <<"-">> \o NatToStr(-i) ELSE NatToStr(i)

\* Value::as_str: a function prints as its name, kept as one symbol
as_str(v) ==
    CASE v.t = "nil" -> <<"n", "i", "l">>
      [] v.t = "bool" -> IF v.v THEN <<"t", "r", "u", "e">> ELSE <<"f", "a", "l", "s", "e">>
      [] v.t = "int" -> IntToStr(v.v)
      [] v.t = "str" -> v.v
      [] v.t = "binding" -> <<v.f>>
      [] OTHER -> <<"?">>

RECURSIVE repeat(_, _)
repeat(s, n) == IF n <= 0 THEN <<>> ELSE s \o repeat(s, n - 1)

RECURSIVE pow(_, _)
pow(b, e) == IF e <= 0 THEN 1 ELSE b * pow(b, e - 1)

Abs(i) == IF i < 0 THEN -i ELSE i

\* Rust's `/` on i64: the quotient truncated towards zero
RustDiv(a, b) == IF (a < 0) = (b < 0) THEN Abs(a) \div Abs(b) ELSE -(Abs(a) \div Abs(b))
\* Rust's `%` on i64: the remainder, with the sign of the dividend
RustRem(a, b) == a - b * RustDiv(a, b)

----------------------------------------------------------------------------
(* Runtime errors (vm::RuntimeErrorType) and results                        *)

TypeErrorUnaryOp(op, v) == [t |-> "TypeErrorUnaryOp", op |-> op, v |-> v]
TypeErrorBinaryOp(op, l, r) == [t |-> "TypeErrorBinaryOp", op |-> op, l |-> l, r |-> r]
ValueIsNotFunctionEvaluable(v) == [t |-> "ValueIsNotFunctionEvaluable", v |-> v]
IncorrectNumberOfArguments(f, n, expected) == [t |-> "IncorrectNumberOfArguments", f |-> f, n |-> n, expected |-> expected]
ValueErrorEvalListMustHaveUnitLength(n) == [t |-> "ValueErrorEvalListMustHaveUnitLength", n |-> n]

Ok(v) == [ok |-> TRUE, v |-> v]
Err(e) == [ok |-> FALSE, e |-> e]

----------------------------------------------------------------------------
(* The operators as VirtualMachine::run applies them                        *)

UnaryOps == {"UnarySub", "UnaryLogicalNot", "UnaryBitwiseNot"}
BinaryOps == {"OpMul", "OpDiv", "OpMod", "OpPow", "OpAdd", "OpSub", "OpEqual"}

unary_sub(a1) == IF is_int(a1) THEN Ok(VInt(-a1.v)) ELSE Err(TypeErrorUnaryOp("UnarySub", a1))

unary_logical_not(a1) == IF is_bool(a1) THEN Ok(VBool(~a1.v)) ELSE Err(TypeErrorUnaryOp("UnaryLogicalNot", a1))

\* !i1 on a two's complement integer is -i1 - 1
unary_bitwise_not(a1) == IF is_int(a1) THEN Ok(VInt(-a1.v - 1)) ELSE Err(TypeErrorUnaryOp("UnaryBitwiseNot", a1))

vm_unary(op, a1) ==
    CASE op = "UnarySub" -> unary_sub(a1)
      [] op = "UnaryLogicalNot" -> unary_logical_not(a1)
      [] op = "UnaryBitwiseNot" -> unary_bitwise_not(a1)

vm_op_mul(a1, a2) ==
    CASE is_int(a1) /\ is_int(a2) -> Ok(VInt(a1.v * a2.v))
      [] is_str(a1) /\ is_int(a2) /\ a2.v > 0 -> Ok(VStr(repeat(a1.v, a2.v)))
      [] is_int(a1) /\ is_str(a2) /\ a1.v > 0 -> Ok(VStr(repeat(a2.v, a1.v)))
      [] OTHER -> Err(TypeErrorBinaryOp("OpMul", a1, a2))

vm_op_div(a1, a2) ==
    IF is_int(a1) /\ is_int(a2) /\ a2.v # 0
    THEN Ok(VInt(RustDiv(a1.v, a2.v)))
    ELSE Err(TypeErrorBinaryOp("OpDiv", a1, a2))

vm_op_mod(a1, a2) ==
    IF is_int(a1) /\ is_int(a2) /\ a2.v # 0
    THEN Ok(VInt(RustRem(a1.v, a2.v)))
    ELSE Err(TypeErrorBinaryOp("OpMod", a1, a2))

vm_op_pow(a1, a2) ==
    IF is_int(a1) /\ is_int(a2) /\ a2.v > 0
    THEN Ok(VInt(pow(a1.v, a2.v)))
    ELSE Err(TypeErrorBinaryOp("OpMod", a1, a2))

vm_op_add(a1, a2) ==
    CASE is_int(a1) /\ is_int(a2) -> Ok(VInt(a1.v + a2.v))
      [] is_str(a1) -> Ok(VStr(a1.v \o as_str(a2)))
      [] is_str(a2) -> Ok(VStr(as_str(a1) \o a2.v))
      [] OTHER -> Err(TypeErrorBinaryOp("OpAdd", a1, a2))

vm_op_sub(a1, a2) ==
    IF is_int(a1) /\ is_int(a2) /\ a2.v > 0
    THEN Ok(VInt(a1.v - a2.v))
    ELSE Err(TypeErrorBinaryOp("OpSub", a1, a2))

\* Value::is_equal: structural
is_equal(a1, a2) == a1 = a2

vm_binary(op, a1, a2) ==
    CASE op = "OpMul" -> vm_op_mul(a1, a2)
      [] op = "OpDiv" -> vm_op_div(a1, a2)
      [] op = "OpMod" -> vm_op_mod(a1, a2)
      [] op = "OpPow" -> vm_op_pow(a1, a2)
      [] op = "OpAdd" -> vm_op_add(a1, a2)
      [] op = "OpSub" -> vm_op_sub(a1, a2)
      [] op = "OpEqual" -> Ok(VBool(is_equal(a1, a2)))


----------------------------------------------------------------------------
(* Expressions (compiler::parser::expr::Expr), without their locations      *)

ENil == [e |-> "Nil"]
EExit == [e |-> "Exit"]
EBool(b) == [e |-> "Bool", b |-> b]
EInt(i) == [e |-> "Int", i |-> i]
EStr(s) == [e |-> "Str", s |-> s]
ELValue(x) == [e |-> "LValue", x |-> x]
ENativeFunction(f) == [e |-> "NativeFunction", f |-> f]
EUnary(op, arg) == [e |-> "Unary", op |-> op, arg |-> arg]
EBinary(op, lhs, rhs) == [e |-> "Binary", op |-> op, lhs |-> lhs, rhs |-> rhs]
\* a list literal (LiteralType::List)
ELiteral(args) == [e |-> "Literal", args |-> args]
ESliceLiteral(a, b) == [e |-> "SliceLiteral", a |-> a, b |-> b]
EUnroll(arg, first) == [e |-> "Unroll", arg |-> arg, first |-> first]
EEval(f, args, any_unroll) == [e |-> "Eval", f |-> f, args |-> args, any_unroll |-> any_unroll]
ECompose(arg, f) == [e |-> "Compose", arg |-> arg, f |-> f]
ELogicalAnd(lhs, rhs) == [e |-> "LogicalAnd", lhs |-> lhs, rhs |-> rhs]
ELogicalOr(lhs, rhs) == [e |-> "LogicalOr", lhs |-> lhs, rhs |-> rhs]
EIndex(array, index) == [e |-> "Index", array |-> array, index |-> index]
ESlice(array, a, b) == [e |-> "Slice", array |-> array, a |-> a, b |-> b]
EIfThenElse(condition, if_true, if_false) == [e |-> "IfThenElse", condition |-> condition, if_true |-> if_true, if_false |-> if_false]
ERuntimeError(err) == [e |-> "RuntimeError", err |-> err]

\* The native functions of the model and NativeFunction::nargs: the declared
\* number of arguments, or -1 for a variadic function (None)
NativeFunctions == {"print", "int", "map", "replace", "OperatorAdd"}

nargs(native) ==
    CASE native = "int" -> 1
      [] native = "map" -> 2
      [] native = "OperatorAdd" -> 2
      [] native = "replace" -> 3
      [] OTHER -> -1

is_standard_binary_operator(native) == native = "OperatorAdd"
as_standard_binary_operator(native) == "OpAdd"

\* Expr::value: the expression of a constant
value(v) ==
    CASE v.t = "nil" -> ENil
      [] v.t = "bool" -> EBool(v.v)
      [] v.t = "int" -> EInt(v.v)
      [] v.t = "str" -> EStr(v.v)

\* Expr::value_result
value_result(r) == IF r.ok THEN value(r.v) ELSE ERuntimeError(r.e)

is_constant(e) == e.e \in {"Nil", "Bool", "Int", "Str"}

\* Expr::as_constant of an expression that is_constant
as_constant(e) ==
    CASE e.e = "Nil" -> VNil
      [] e.e = "Bool" -> VBool(e.b)
      [] e.e = "Int" -> VInt(e.i)
      [] e.e = "Str" -> VStr(e.s)

is_unroll(e) == e.e = "Unroll"
any_unroll(args) == \E k \in 1..Len(args) : is_unroll(args[k])

\* UnaryOp::apply and BinaryOp::apply: the operator the machine executes
apply_unary(op, a1) == vm_unary(op, a1)
apply_binary(op, a1, a2) == vm_binary(op, a1, a2)

(* Purity: None < Weak < Strong *)
PurityNone == 0
PurityWeak == 1
PurityStrong == 2

Min2(a, b) == IF a < b THEN a ELSE b

RECURSIVE MinOf(_, _)
MinOf(ps, default) == IF Len(ps) = 0 THEN default ELSE Min2(Head(ps), MinOf(Tail(ps), Head(ps)))

is_partial(e, n) == e.e = "NativeFunction" /\ nargs(e.f) # -1 /\ nargs(e.f) > n

RECURSIVE purity(_)
purity(e) ==
    CASE e.e \in {"Nil", "Exit", "Bool", "Int", "Str", "NativeFunction"} -> PurityStrong
      [] e.e = "LValue" -> PurityWeak
      [] e.e = "Unary" -> purity(e.arg)
      [] e.e \in {"Binary", "LogicalOr", "LogicalAnd"} -> Min2(purity(e.lhs), purity(e.rhs))
      [] e.e = "Literal" -> MinOf([k \in 1..Len(e.args) |-> purity(e.args[k])], PurityStrong)
      [] e.e = "Unroll" -> purity(e.arg)
      [] e.e = "IfThenElse" -> Min2(Min2(purity(e.condition), purity(e.if_true)), purity(e.if_false))
      [] e.e = "Eval" ->
            IF ~e.any_unroll /\ is_partial(e.f, Len(e.args))
            THEN Min2(purity(e.f), MinOf([k \in 1..Len(e.args) |-> purity(e.args[k])], PurityStrong))
            ELSE PurityNone
      [] e.e = "Compose" -> IF is_partial(e.f, 1) THEN Min2(purity(e.f), purity(e.arg)) ELSE PurityNone
      [] OTHER -> PurityNone

\* a rule that would let a Weak expression move across a None one
can_reorder_unless_none(self, other) == purity(self) # PurityNone \/ purity(other) = PurityStrong

can_reorder(self, other) ==
    CASE purity(self) = PurityStrong -> TRUE
      [] purity(self) = PurityWeak -> purity(other) # PurityNone
      [] OTHER -> purity(other) = PurityStrong


----------------------------------------------------------------------------
(* The optimizer (Optimize::optimize for Expr)                              *)

RECURSIVE optimize(_)
RECURSIVE optimize_all(_)

\* Optimize for Vec<Expr>: every element, in order
optimize_all(args) == IF Len(args) = 0 THEN <<>> ELSE <<optimize(Head(args))>> \o optimize_all(Tail(args))

\* the Unary arm, `arg` already optimized
optimize_unary(op, arg) ==
    IF is_constant(arg)
    THEN value_result(apply_unary(op, as_constant(arg)))
    ELSE EUnary(op, arg)

\* the Binary arm, `lhs` and `rhs` already optimized
optimize_binary(op, lhs, rhs) ==
    IF is_constant(lhs) /\ is_constant(rhs)
    THEN value_result(apply_binary(op, as_constant(lhs), as_constant(rhs)))
    ELSE EBinary(op, lhs, rhs)

\* a guard that would also require the outer call not to be unrolled
can_merge_neither_unrolled(f, any_unroll_outer) ==
    f.e = "Eval" /\ ~f.any_unroll /\ ~any_unroll_outer /\ is_partial(f.f, Len(f.args))

\* the guard of the arm that merges two calls, `f` being the optimized callee
can_merge(f, any_unroll_outer) == f.e = "Eval" /\ ~f.any_unroll /\ is_partial(f.f, Len(f.args))

\* the Eval arm, `f` and `args` already optimized
optimize_eval(f, args, any_unroll_outer) ==
    CASE f.e = "NativeFunction" /\ is_standard_binary_operator(f.f) /\ Len(args) = 2 ->
            EBinary(as_standard_binary_operator(f.f), args[1], args[2])
      [] can_merge(f, any_unroll_outer) ->
            optimize(EEval(f.f, f.args \o args, any_unroll_outer))
      [] OTHER -> EEval(f, args, any_unroll_outer)

\* an inlining that would index with the first element of a longer list
optimize_compose_list_first(arg, args) ==
    IF Len(args) = 0
    THEN ERuntimeError(ValueErrorEvalListMustHaveUnitLength(Len(args)))
    ELSE EIndex(arg, args[1])

\* the arm `arg . [b, ...]` of Compose, `args` being the elements of the list
optimize_compose_list(arg, args) ==
    IF Len(args) # 1
    THEN ERuntimeError(ValueErrorEvalListMustHaveUnitLength(Len(args)))
    ELSE EIndex(arg, args[1])

\* the last arm of Compose: `f(arg)` when the two may be reordered
optimize_compose_reorder(arg, f) ==
    IF can_reorder(f, arg)
    THEN optimize(EEval(f, <<arg>>, FALSE))
    ELSE ECompose(arg, f)

\* the Compose arm, `arg` and `f` already optimized
optimize_compose(arg, f) ==
    CASE f.e = "Literal" /\ ~any_unroll(f.args) -> optimize_compose_list(arg, f.args)
      [] f.e = "SliceLiteral" -> ESlice(arg, f.a, f.b)
      [] OTHER -> optimize_compose_reorder(arg, f)

\* a conditional that would keep the first branch whatever the constant is
optimize_if_first(condition, if_true, if_false) ==
    IF is_constant(condition)
    THEN optimize(if_true)
    ELSE EIfThenElse(condition, optimize(if_true), optimize(if_false))

\* the IfThenElse arm, `condition` already optimized
optimize_if(condition, if_true, if_false) ==
    IF is_constant(condition)
    THEN (IF as_bool(as_constant(condition)) THEN optimize(if_true) ELSE optimize(if_false))
    ELSE EIfThenElse(condition, optimize(if_true), optimize(if_false))

optimize(e) ==
    CASE e.e \in {"Nil", "Exit", "Bool", "Int", "Str", "LValue", "NativeFunction"} -> e
      [] e.e = "Unary" -> optimize_unary(e.op, optimize(e.arg))
      [] e.e = "Binary" -> optimize_binary(e.op, optimize(e.lhs), optimize(e.rhs))
      [] e.e = "Literal" -> ELiteral(optimize_all(e.args))
      [] e.e = "Unroll" -> EUnroll(optimize(e.arg), e.first)
      [] e.e = "Eval" -> optimize_eval(optimize(e.f), optimize_all(e.args), e.any_unroll)
      [] e.e = "Compose" -> optimize_compose(optimize(e.arg), optimize(e.f))
      [] e.e = "LogicalAnd" -> ELogicalAnd(optimize(e.lhs), optimize(e.rhs))
      [] e.e = "LogicalOr" -> ELogicalOr(optimize(e.lhs), optimize(e.rhs))
      [] e.e = "Index" -> EIndex(optimize(e.array), optimize(e.index))
      [] e.e = "Slice" -> ESlice(optimize(e.array), optimize(e.a), optimize(e.b))
      [] e.e = "IfThenElse" -> optimize_if(optimize(e.condition), e.if_true, e.if_false)
      [] OTHER -> e


----------------------------------------------------------------------------
(* Opcodes (vm::Opcode)                                                     *)

Noop == [op |-> "Noop"]
Pop == [op |-> "Pop"]
Swap == [op |-> "Swap"]
Exit == [op |-> "Exit"]
Nil == [op |-> "Nil"]
True == [op |-> "True"]
False == [op |-> "False"]
\* Constant(id): the model carries the constant itself rather than its id
Constant(v) == [op |-> "Constant", v |-> v]
NativeFunction(f) == [op |-> "NativeFunction", f |-> f]
PushGlobal(g) == [op |-> "PushGlobal", g |-> g]
Unary(o) == [op |-> "Unary", o |-> o]
Binary(o) == [op |-> "Binary", o |-> o]
OpFuncEval(n) == [op |-> "OpFuncEval", n |-> n]
OpFuncEvalUnrolled(n) == [op |-> "OpFuncEvalUnrolled", n |-> n]
OpUnroll(first) == [op |-> "OpUnroll", first |-> first]
LiteralBegin(n) == [op |-> "LiteralBegin", n |-> n]
LiteralAcc(n) == [op |-> "LiteralAcc", n |-> n]
LiteralUnroll == [op |-> "LiteralUnroll"]
LiteralEnd == [op |-> "LiteralEnd"]
OpIndex == [op |-> "OpIndex"]
OpSlice == [op |-> "OpSlice"]
Slice == [op |-> "Slice"]
Jump(k) == [op |-> "Jump", k |-> k]
JumpIfFalse(k) == [op |-> "JumpIfFalse", k |-> k]
JumpIfFalsePop(k) == [op |-> "JumpIfFalsePop", k |-> k]
JumpIfTrue(k) == [op |-> "JumpIfTrue", k |-> k]
\* what Parser::runtime_error emits: an unconditional error at that location
Raise(err) == [op |-> "Raise", err |-> err]

JumpOps == {"Jump", "JumpIfFalse", "JumpIfFalsePop", "JumpIfTrue"}

\* Opcode::disassembly of a jump at index `at`: the index it prints as target
disassembly_target(at, offset) == at + (offset + 1)

----------------------------------------------------------------------------
(* The emitter (Parser::emit_expr); `out` is the code emitted so far       *)

push(out, op) == Append(out, op)

\* Parser::reserve: a placeholder to be patched, and its index
reserve(out) == Append(out, Noop)
reserved(out) == Len(out)

\* the operand of a jump placed at index `at` whose target is index `target`,
\* as VirtualMachine::run reads it
jump_operand(at, target) == target

\* Parser::fix_jump: patch the placeholder at index `at` into a jump to the
\* next opcode to be emitted
fix_jump(out, at, kind) == [out EXCEPT ![at + 1] = [op |-> kind, k |-> jump_operand(at, Len(out))]]

RECURSIVE emit_expr(_, _)
RECURSIVE emit_all(_, _)
RECURSIVE emit_literal_args(_, _, _)

emit_all(out, args) == IF Len(args) = 0 THEN out ELSE emit_all(emit_expr(out, Head(args)), Tail(args))

\* the loop over the elements of a literal; `acc_args` counts the elements
\* emitted since the last LiteralAcc
emit_literal_args(out, args, acc_args) ==
    CASE Len(args) = 0 -> IF acc_args > 0 THEN push(out, LiteralAcc(acc_args)) ELSE out
      [] Len(args) > 0 /\ is_unroll(Head(args)) ->
            emit_literal_args(
                push(emit_expr(IF acc_args > 0 THEN push(out, LiteralAcc(acc_args)) ELSE out, Head(args).arg), LiteralUnroll),
                Tail(args), 0)
      [] OTHER -> emit_literal_args(emit_expr(out, Head(args)), Tail(args), acc_args + 1)

emit_logical(out, lhs, rhs, kind) ==
    LET c1 == emit_expr(out, lhs)
        at == reserved(c1)
        c2 == emit_expr(push(reserve(c1), Pop), rhs)
    IN  fix_jump(c2, at, kind)

emit_if_then_else(out, condition, if_true, if_false) ==
    LET c1 == emit_expr(out, condition)
        jump_if_false_pop == reserved(c1)
        c2 == emit_expr(reserve(c1), if_true)
        jump == reserved(c2)
        c3 == fix_jump(reserve(c2), jump_if_false_pop, "JumpIfFalsePop")
        c4 == emit_expr(c3, if_false)
    IN  fix_jump(c4, jump, "Jump")

emit_expr(out, e) ==
    CASE e.e = "Nil" -> push(out, Nil)
      [] e.e = "Exit" -> push(out, Exit)
      [] e.e = "Bool" -> push(out, IF e.b THEN True ELSE False)
      [] e.e = "Int" -> push(out, Constant(VInt(e.i)))
      [] e.e = "Str" -> push(out, Constant(VStr(e.s)))
      [] e.e = "LValue" -> push(out, PushGlobal(e.x))
      [] e.e = "NativeFunction" -> push(out, NativeFunction(e.f))
      [] e.e = "SliceLiteral" -> push(emit_expr(emit_expr(out, e.a), e.b), Slice)
      [] e.e = "Unary" -> push(emit_expr(out, e.arg), Unary(e.op))
      [] e.e = "Binary" -> push(emit_expr(emit_expr(out, e.lhs), e.rhs), Binary(e.op))
      [] e.e = "Literal" -> push(emit_literal_args(push(out, LiteralBegin(Len(e.args))), e.args, 0), LiteralEnd)
      [] e.e = "Unroll" -> push(emit_expr(out, e.arg), OpUnroll(e.first))
      [] e.e = "Eval" ->
            push(emit_all(emit_expr(out, e.f), e.args),
                 IF e.any_unroll THEN OpFuncEvalUnrolled(Len(e.args)) ELSE OpFuncEval(Len(e.args)))
      [] e.e = "Compose" -> push(push(emit_expr(emit_expr(out, e.arg), e.f), Swap), OpFuncEval(1))
      [] e.e = "LogicalAnd" -> emit_logical(out, e.lhs, e.rhs, "JumpIfFalse")
      [] e.e = "LogicalOr" -> emit_logical(out, e.lhs, e.rhs, "JumpIfTrue")
      [] e.e = "Index" -> push(emit_expr(emit_expr(out, e.array), e.index), OpIndex)
      [] e.e = "Slice" -> push(emit_expr(emit_expr(emit_expr(out, e.array), e.a), e.b), OpSlice)
      [] e.e = "IfThenElse" -> emit_if_then_else(out, e.condition, e.if_true, e.if_false)
      [] e.e = "RuntimeError" -> push(out, Raise(e.err))

\* an expression statement, and the end of the program
emit_program(e) == push(push(emit_expr(<<>>, e), Pop), Exit)

----------------------------------------------------------------------------
(* Native function calls (stdlib::invoke)                                   *)

RECURSIVE Reverse(_)
Reverse(s) == IF Len(s) = 0 THEN <<>> ELSE Append(Reverse(Tail(s)), Head(s))

\* the arguments of print, separated by spaces, and the end of the line
RECURSIVE print_line(_)
print_line(args) ==
    CASE Len(args) = 0 -> <<"\n">>
      [] Len(args) = 1 -> as_str(args[1]) \o <<"\n">>
      [] OTHER -> as_str(Head(args)) \o <<" ">> \o print_line(Tail(args))

\* the value a native function returns for the arguments `args`, which are in
\* the order they were applied
invoke_value(native, args) ==
    CASE native = "print" -> Ok(VNil)
      [] native # "print" /\ Len(args) < nargs(native) -> Ok(VPartial(native, Reverse(args)))
      [] native # "print" /\ Len(args) > nargs(native) -> Err(IncorrectNumberOfArguments(native, Len(args), nargs(native)))
      [] native = "OperatorAdd" /\ Len(args) = nargs(native) -> vm_op_add(args[1], args[2])
      [] OTHER -> Ok(VTerm(native, args))

\* what a native function writes
invoke_output(native, args) == IF native = "print" THEN print_line(args) ELSE <<>>

----------------------------------------------------------------------------
(* The machine (VirtualMachine::run), one opcode at a time.                 *)
(* A machine is a record [ip, stack, output, status, error].                *)

top_n(s, n) == SubSeq(s, Len(s) - n + 1, Len(s))
drop_n(s, n) == SubSeq(s, 1, Len(s) - n)
peek(m, offset) == m.stack[Len(m.stack) - offset]

\* an unwrap of None or an index out of range
panicked(m) == [m EXCEPT !.status = "panic"]
\* VirtualMachine::error
raised(m, e) == [m EXCEPT !.status = "error", !.error = e]
pushed(m, v) == [m EXCEPT !.stack = Append(m.stack, v)]
popped(m, n) == [m EXCEPT !.stack = drop_n(m.stack, n)]

\* stdlib::invoke(binding, n, vm): takes the n arguments off the stack; the
\* caller then pops one more value and pushes the result
invoke(m, native, n) ==
    LET args == top_n(m.stack, n)
        ret == invoke_value(native, args)
        m1 == [popped(m, n) EXCEPT !.output = m.output \o invoke_output(native, args)]
    IN  IF ret.ok THEN pushed(popped(m1, 1), ret.v) ELSE raised(m1, ret.e)

\* held arguments spliced as they are stored
held_as_stored(held) == held

\* the order in which the held arguments of a partial function go back onto
\* the stack: `nargs` holds them last first
held_in_order(held) == Reverse(held)

op_func_eval_partial(m, n) ==
    LET i == Len(m.stack) - n
        f == m.stack[i]
        below == SubSeq(m.stack, 1, i - 1)
        supplied == top_n(m.stack, n)
        spliced == below \o <<VNil>> \o held_in_order(f.args) \o supplied
    IN  invoke([m EXCEPT !.stack = spliced], f.f, n + Len(f.args))

op_func_eval(m, n) ==
    IF Len(m.stack) < n + 1 THEN panicked(m)
    ELSE LET f == peek(m, n)
         IN  CASE f.t = "binding" -> invoke(m, f.f, n)
               [] f.t = "partial" -> op_func_eval_partial(m, n)
               [] OTHER -> raised(m, ValueIsNotFunctionEvaluable(f))

\* a JumpIfFalse that would consume the value it tests
jump_if_false_consuming(m, k) ==
    IF Len(m.stack) < 1 THEN panicked(m)
    ELSE IF ~as_bool(peek(m, 0)) THEN [[m EXCEPT !.stack = drop_n(m.stack, 1)] EXCEPT !.ip = k] ELSE m

op_jump_if_false(m, k) ==
    IF Len(m.stack) < 1 THEN panicked(m)
    ELSE IF ~as_bool(peek(m, 0)) THEN [m EXCEPT !.ip = k] ELSE m

op_jump_if_false_pop(m, k) ==
    IF Len(m.stack) < 1 THEN panicked(m)
    ELSE IF ~as_bool(peek(m, 0)) THEN [popped(m, 1) EXCEPT !.ip = k] ELSE popped(m, 1)

op_jump_if_true(m, k) ==
    IF Len(m.stack) < 1 THEN panicked(m)
    ELSE IF as_bool(peek(m, 0)) THEN [m EXCEPT !.ip = k] ELSE m

op_jump(m, k) == [m EXCEPT !.ip = k]

op_pop(m) == IF Len(m.stack) < 1 THEN panicked(m) ELSE popped(m, 1)

op_swap(m) ==
    IF Len(m.stack) < 2 THEN panicked(m)
    ELSE [m EXCEPT !.stack = drop_n(m.stack, 2) \o <<peek(m, 0), peek(m, 1)>>]

op_unary(m, o) ==
    IF Len(m.stack) < 1 THEN panicked(m)
    ELSE LET r == vm_unary(o, peek(m, 0))
         IN  IF r.ok THEN pushed(popped(m, 1), r.v) ELSE raised(popped(m, 1), r.e)

op_binary(m, o) ==
    IF Len(m.stack) < 2 THEN panicked(m)
    ELSE LET r == vm_binary(o, peek(m, 1), peek(m, 0))
         IN  IF r.ok THEN pushed(popped(m, 2), r.v) ELSE raised(popped(m, 2), r.e)

op_index(m) ==
    IF Len(m.stack) < 2 THEN panicked(m)
    ELSE raised(popped(m, 2), TypeErrorBinaryOp("OpIndex", peek(m, 1), peek(m, 0)))

op_exit(m) == [m EXCEPT !.status = "ok"]

\* the body of the loop for the opcode `op`, `m.ip` already incremented
run_op(m, op, g) ==
    CASE op.op = "JumpIfFalse" -> op_jump_if_false(m, op.k)
      [] op.op = "JumpIfFalsePop" -> op_jump_if_false_pop(m, op.k)
      [] op.op = "JumpIfTrue" -> op_jump_if_true(m, op.k)
      [] op.op = "Jump" -> op_jump(m, op.k)
      [] op.op = "Pop" -> op_pop(m)
      [] op.op = "Swap" -> op_swap(m)
      [] op.op = "PushGlobal" -> pushed(m, g[op.g + 1])
      [] op.op = "Nil" -> pushed(m, VNil)
      [] op.op = "True" -> pushed(m, VBool(TRUE))
      [] op.op = "False" -> pushed(m, VBool(FALSE))
      [] op.op = "Constant" -> pushed(m, op.v)
      [] op.op = "NativeFunction" -> pushed(m, VBinding(op.f))
      [] op.op = "Unary" -> op_unary(m, op.o)
      [] op.op = "Binary" -> op_binary(m, op.o)
      [] op.op = "OpFuncEval" -> op_func_eval(m, op.n)
      [] op.op = "OpIndex" -> op_index(m)
      [] op.op = "Raise" -> raised(m, op.err)
      [] op.op = "Exit" -> op_exit(m)
      [] OTHER -> panicked(m)

\* one iteration of the loop of run
step(m, c, g) ==
    IF m.ip >= Len(c) \/ m.ip < 0 THEN panicked(m)
    ELSE run_op([m EXCEPT !.ip = m.ip + 1], c[m.ip + 1], g)

Machine(c) == [ip |-> 0, stack |-> <<>>, output |-> <<>>, status |-> "running", error |-> NoError]

\* run to the end, or until `fuel` opcodes have been executed
RECURSIVE run(_, _, _, _)
run(m, c, g, fuel) == IF m.status # "running" \/ fuel = 0 THEN m ELSE run(step(m, c, g), c, g, fuel - 1)

----------------------------------------------------------------------------
(* Source programs: one expression statement each                           *)

Ints == -MaxInt..MaxInt

Constants == {ENil, EBool(TRUE), EBool(FALSE), EStr(<<>>), EStr(<<"a">>)} \cup {EInt(i) : i \in Ints}

\* print(c): writes a line and evaluates to nil
print_of(c) == EEval(ENativeFunction("print"), <<c>>, FALSE)

\* expressions of every purity: constants and functions, variables, calls
StrongExprs == {ENil, EBool(TRUE), EInt(1), EStr(<<"a">>), EExit, ENativeFunction("print"), ENativeFunction("map"),
                EUnary("UnarySub", ENativeFunction("print")), EUnary("UnarySub", ENativeFunction("map")),
                EEval(ENativeFunction("map"), <<EInt(1)>>, FALSE)}
WeakExprs == {ELValue(0), EUnary("UnarySub", ELValue(0)), EEval(ENativeFunction("map"), <<ELValue(0)>>, FALSE)}
NoneExprs == {print_of(EInt(1)), print_of(EStr(<<"a">>)), ECompose(EInt(1), ENativeFunction("print")),
              EEval(ENativeFunction("map"), <<print_of(EInt(2))>>, FALSE)}
Operands == StrongExprs \cup WeakExprs \cup NoneExprs

\* constant expressions: operators and conditionals over constants
ConstUnary == {EUnary(op, c) : op \in UnaryOps, c \in Constants}
ConstBinary == {EBinary(op, l, r) : op \in BinaryOps, l \in Constants, r \in Constants}
ConstNested ==
    {EBinary(op, EUnary("UnarySub", l), r) : op \in {"OpAdd", "OpSub", "OpMul"}, l \in {ENil, EInt(1), EStr(<<"a">>)}, r \in {EInt(2), EBool(TRUE)}}
    \cup {EUnary(u, EBinary(op, l, r)) : u \in {"UnarySub", "UnaryLogicalNot"}, op \in {"OpAdd", "OpEqual"}, l \in {EInt(1), ENil}, r \in {EInt(1), EStr(<<"a">>)}}
    \cup {EBinary("OpAdd", l, EBinary(op, EInt(1), r)) : op \in {"OpSub", "OpDiv"}, l \in {EInt(1), ENil}, r \in {EInt(0), EInt(1), ENil}}
ConstConditions == {ENil, EBool(TRUE), EInt(0), EStr(<<"a">>), EUnary("UnarySub", ENil), EBinary("OpEqual", EInt(1), EInt(1)), EBinary("OpDiv", EInt(1), EInt(0))}
ConstBranches == {EInt(1), EStr(<<"a">>), EUnary("UnarySub", EStr(<<"a">>)), EBinary("OpAdd", EInt(1), EInt(1))}
ConstIf ==
    {EIfThenElse(c, a, b) : c \in ConstConditions, a \in ConstBranches, b \in ConstBranches}
    \cup {EBinary("OpAdd", EIfThenElse(c, EInt(1), EInt(2)), EInt(1)) : c \in ConstConditions}
ConstExprs == Constants \cup ConstUnary \cup ConstBinary \cup ConstNested \cup ConstIf

\* `lhs and rhs`, `lhs or rhs`
LogicalLhs == {ENil, EBool(TRUE), EBool(FALSE), EInt(0), EInt(1), EStr(<<>>), EStr(<<"a">>), ENativeFunction("print"), ELValue(0), print_of(EInt(1))}
LogicalRhs == {EInt(2), ENil, print_of(EInt(2)), EUnary("UnarySub", ENil), EExit}
LogicalExprs ==
    {ELogicalAnd(l, r) : l \in LogicalLhs, r \in LogicalRhs} \cup {ELogicalOr(l, r) : l \in LogicalLhs, r \in LogicalRhs}
    \cup {ELogicalAnd(ELogicalOr(l, r), print_of(EInt(0))) : l \in {ENil, EInt(1)}, r \in LogicalRhs}
    \cup {ELogicalOr(l, ELogicalAnd(r, print_of(EInt(0)))) : l \in {ENil, EInt(1)}, r \in LogicalRhs}

\* calls of the three-argument function `replace`, its arguments supplied
\* over one, two or three calls, and calls that supply too many
ArgValues == {EInt(1), EStr(<<"a">>), ENil}
call(f, args) == EEval(f, args, FALSE)
replace == ENativeFunction("replace")
PartialCalls ==
    UNION {{call(replace, <<a, b, c>>),
            call(call(replace, <<a>>), <<b, c>>),
            call(call(replace, <<a, b>>), <<c>>),
            call(call(call(replace, <<a>>), <<b>>), <<c>>),
            call(call(call(replace, <<>>), <<a, b>>), <<c>>),
            call(call(replace, <<a, b>>), <<c, a>>),
            call(call(replace, <<a, b, c>>), <<a>>)} : a \in ArgValues, b \in {EInt(2), EStr(<<>>)}, c \in {EInt(-1), EBool(TRUE)}}

\* `f(inner...)(outer...)` for every function and every use of unrolling
CallArgs == {<<>>, <<EInt(1)>>, <<EInt(1), EInt(2)>>}
UnrolledArgs == {<<EUnroll(ELValue(0), TRUE)>>, <<EInt(1), EUnroll(ELValue(0), FALSE)>>}
DoubleCalls ==
    {EEval(EEval(ENativeFunction(f), a, any_unroll(a)), b, any_unroll(b)) :
        f \in NativeFunctions, a \in CallArgs \cup UnrolledArgs, b \in CallArgs \cup UnrolledArgs}

\* `arg . f` for operands of every purity, and for list and slice literals
ListLiterals == {ELiteral(<<>>), ELiteral(<<EInt(0)>>), ELiteral(<<print_of(EInt(2))>>), ELiteral(<<EInt(0), EInt(1)>>),
                 ELiteral(<<EBinary("OpAdd", EInt(1), EInt(1))>>),
                 ELiteral(<<EInt(0), EInt(1), ELValue(0)>>), ELiteral(<<EUnroll(ELValue(0), TRUE)>>),
                 ELiteral(<<EInt(0), EUnroll(ELValue(0), FALSE)>>)}
Composes ==
    {ECompose(a, f) : a \in Operands, f \in Operands}
    \cup {ECompose(a, f) : a \in {EInt(1), ELValue(0), print_of(EInt(1)), EBinary("OpAdd", EInt(1), EInt(1))}, f \in ListLiterals \cup {ESliceLiteral(EInt(0), EInt(1))}}

\* an expression that leaves the program in the middle of a statement
Exits == {EBinary("OpAdd", EInt(1), EExit), EUnary("UnarySub", EExit), call(ENativeFunction("print"), <<EInt(1), EExit>>), EExit}

Programs == ConstExprs \cup LogicalExprs \cup PartialCalls \cup DoubleCalls \cup Composes \cup Exits

\* hand-assembled code, for the opcodes one at a time
Assembled ==
    {<<Jump(1), Nil, Pop, Exit>>,
     <<Jump(2), Exit, Nil, Pop, Exit>>,
     <<Nil, JumpIfFalsePop(3), Exit, Exit>>,
     <<True, JumpIfTrue(3), Pop, Pop, Exit>>,
     <<Nil, JumpIfFalse(3), Exit, Pop, Exit>>,
     <<Pop, Exit>>,
     <<Nil, Swap, Exit>>,
     <<Nil>>}

----------------------------------------------------------------------------
(* The pipeline: compile (optimize, emit), then run                         *)

\* the source of a machine that was handed code directly
NoSource == [e |-> "None"]
NoOpcode == [at |-> -1, op |-> Noop]

\* VirtualMachine::new: every global is nil
new_globals == <<VNil>>

machine == [ip |-> ip, stack |-> stack, output |-> output, status |-> status, error |-> error]

\* compile(enable_optimization, text) up to the parser's result
InitCompile ==
    /\ src \in Programs
    /\ enable_opt \in BOOLEAN
    /\ ast = src
    /\ code = <<>>
    /\ status = "parsed"

\* VirtualMachine::new on code that did not come from the compiler
InitLoad ==
    /\ src = NoSource
    /\ enable_opt = FALSE
    /\ ast = NoSource
    /\ code \in Assembled
    /\ status = "running"

\* the opcode executed last was not a Return
NoReturn == [n |-> -1]

\* the pipeline runs no user function
NoFrames ==
    /\ frame_ip = 0
    /\ frame_stack = <<>>
    /\ call_stack = <<>>
    /\ entered = <<>>
    /\ returned = NoReturn

Init ==
    /\ NoFrames
    /\ NoLibrary
    /\ InitCompile \/ InitLoad
    /\ ip = 0
    /\ stack = <<>>
    /\ globals = new_globals
    /\ output = <<>>
    /\ error = NoError
    /\ last = NoOpcode
    /\ trace = <<>>

Optimize ==
    /\ status = "parsed"
    /\ enable_opt
    /\ ast' = optimize(src)
    /\ status' = "optimized"
    /\ UNCHANGED <<src, enable_opt, code, ip, stack, globals, output, error, last, trace, frame_vars, library_vars>>

Emit ==
    /\ \/ status = "parsed" /\ ~enable_opt
       \/ status = "optimized"
    /\ code' = emit_program(ast)
    /\ status' = "running"
    /\ UNCHANGED <<src, enable_opt, ast, ip, stack, globals, output, error, last, trace, frame_vars, library_vars>>

Step ==
    /\ status = "running"
    /\ Len(trace) < MaxSteps
    /\ LET m == step(machine, code, globals)
       IN  /\ ip' = m.ip
           /\ stack' = m.stack
           /\ output' = m.output
           /\ status' = m.status
           /\ error' = m.error
    /\ last' = [at |-> ip, op |-> IF ip < Len(code) THEN code[ip + 1] ELSE Noop]
    /\ trace' = Append(trace, ip)
    /\ UNCHANGED <<src, enable_opt, ast, code, globals, frame_vars, library_vars>>

Next == Optimize \/ Emit \/ Step

Spec == Init /\ [][Next]_vars

----------------------------------------------------------------------------
(* Reference runs used to state the properties                              *)

\* run the code of one expression to its end
RECURSIVE run_expr(_, _, _, _)
run_expr(m, c, g, fuel) ==
    IF m.status # "running" \/ m.ip >= Len(c) \/ fuel = 0 THEN m ELSE run_expr(step(m, c, g), c, g, fuel - 1)

\* the machine after evaluating the expression `e` on an empty stack
evaluate(e) == run_expr(Machine(emit_expr(<<>>, e)), emit_expr(<<>>, e), new_globals, MaxSteps)
\* it ran to completion and left exactly one value
evaluated(e) == evaluate(e).status = "running" /\ Len(evaluate(e).stack) = 1
value_of(e) == evaluate(e).stack[1]

\* the machine after running the statement `e` as a program, unoptimized
run_program(e) == run(Machine(emit_program(e)), emit_program(e), new_globals, MaxSteps)

\* the statement's expression has been evaluated: the next opcode is the
\* statement's Pop
AtEndOfExpression == status = "running" /\ Len(code) >= 2 /\ ip = Len(code) - 2 /\ src # NoSource
Finished == status \in {"ok", "error", "panic"}

----------------------------------------------------------------------------
(* Properties                                                               *)

\* C1: whenever run returns Ok for a program the compiler produced, the value
\* stack is empty.
C1_StackEmptyOnOk == (status = "ok" /\ src # NoSource) => stack = <<>>

\* `1 + exit` has returned Ok in the middle of the statement, with 1 on the stack
C1_Witness ==
    /\ src = EBinary("OpAdd", EInt(1), EExit)
    /\ code = <<Constant(VInt(1)), Exit, Binary("OpAdd"), Pop, Exit>>
    /\ status = "ok" /\ last = [at |-> 1, op |-> Exit]
    /\ stack = <<VInt(1)>>

\* the arguments of a chain of calls f(..)(..)(..), in order
RECURSIVE all_args(_)
all_args(e) == IF e.e = "Eval" THEN all_args(e.f) \o e.args ELSE <<>>
calls(e) == e.e = "Eval" /\ e.f.e = "Eval"

\* the values of constant arguments, in order
RECURSIVE values_of(_)
values_of(args) == IF Len(args) = 0 THEN <<>> ELSE <<value_of(Head(args))>> \o values_of(Tail(args))

\* replace applied to exactly its three arguments over two or three calls,
\* run without the optimizer
SuppliedOverSeveralCalls == src \in PartialCalls /\ calls(src) /\ Len(all_args(src)) = nargs("replace") /\ ~enable_opt /\ status # "parsed"

\* C3: the arguments of a native function supplied over several calls reach
\* it in application order: the run yields the value of the single call with
\* all the arguments, and that value is the only one left on the stack.
C3_PartialApplication ==
    SuppliedOverSeveralCalls =>
        /\ status \notin {"error", "panic"}
        /\ AtEndOfExpression =>
            /\ evaluated(call(replace, all_args(src)))
            /\ stack = <<value_of(call(replace, all_args(src)))>>
            /\ stack = <<VTerm("replace", values_of(all_args(src)))>>

\* three calls have supplied three different arguments, one at a time
C3_Witness ==
    /\ SuppliedOverSeveralCalls /\ AtEndOfExpression
    /\ src.f.f.e = "Eval" /\ Len(src.f.f.args) = 1 /\ Len(src.f.args) = 1
    /\ last.op = OpFuncEval(1)
    /\ stack = <<VTerm("replace", <<VStr(<<"a">>), VInt(2), VBool(TRUE)>>)>>


\* the layout of `lhs and rhs` / `lhs or rhs`: lhs; jump end; Pop; rhs; end:
Logical == ast.e \in {"LogicalAnd", "LogicalOr"} /\ status \notin {"parsed", "optimized"}
jump_at == Len(emit_expr(<<>>, ast.lhs))
end_at == Len(code) - 2
\* lhs decides the result: falsy for `and`, truthy for `or`
short_circuits == evaluated(ast.lhs) /\ (as_bool(value_of(ast.lhs)) = (ast.e = "LogicalOr"))
executed(at) == \E k \in 1..Len(trace) : trace[k] = at

\* C4: `lhs and rhs` / `lhs or rhs` is compiled as lhs; JumpIfFalse /
\* JumpIfTrue end; Pop; rhs; end:. When lhs decides the result, no opcode of
\* rhs (nor the Pop before it) is executed and lhs's value is the one value
\* on the stack at end; otherwise lhs's value is popped and rhs's value is
\* the one value on the stack at end.
C4_ShortCircuit ==
    Logical =>
        /\ SubSeq(code, 1, jump_at) = emit_expr(<<>>, ast.lhs)
        /\ code[jump_at + 1].op = (IF ast.e = "LogicalAnd" THEN "JumpIfFalse" ELSE "JumpIfTrue")
        /\ code[jump_at + 2] = Pop
        /\ short_circuits =>
            /\ \A at \in jump_at + 1 .. end_at - 1 : ~executed(at)
            /\ last.at = jump_at => (status = "running" /\ ip = end_at /\ stack = <<value_of(ast.lhs)>>)
        /\ (evaluated(ast.lhs) /\ ~short_circuits) =>
            /\ last.at = jump_at => (ip = jump_at + 1 /\ stack = <<value_of(ast.lhs)>>)
            /\ last.at = jump_at + 1 => stack = <<>>
            /\ AtEndOfExpression => (evaluated(ast.rhs) /\ stack = <<value_of(ast.rhs)>>)

\* `nil and print(2)` has skipped the call: nothing was written, nil is left
C4_Witness ==
    /\ Logical /\ short_circuits
    /\ ast = ELogicalAnd(ENil, print_of(EInt(2)))
    /\ AtEndOfExpression /\ last.op.op = "JumpIfFalse"
    /\ stack = <<VNil>> /\ output = <<>>

\* C5: a jump with offset k at index i transfers control to index i + 1 + k,
\* the target the disassembly prints; a conditional jump that is not taken
\* continues at i + 1.
C5_RelativeJumps ==
    (last.op.op \in JumpOps /\ status = "running") =>
        \/ ip = disassembly_target(last.at, last.op.k)
        \/ last.op.op # "Jump" /\ ip = last.at + 1

\* Jump(1) at index 0 has moved the machine to index 1, where the
\* disassembly of the jump names index 2
C5_Witness ==
    /\ code = <<Jump(1), Nil, Pop, Exit>>
    /\ last = [at |-> 0, op |-> Jump(1)]
    /\ status = "running" /\ ip = 1
    /\ disassembly_target(last.at, last.op.k) = 2


\* `arg . f` after the optimizer pass; its operands as the Compose arm sees them
Optimized == enable_opt /\ status # "parsed"
ComposeOptimized == Optimized /\ src.e = "Compose"
arg_opt == optimize(src.arg)
f_opt == optimize(src.f)
\* the two forms the last arm of Compose chooses between
call_form == optimize(EEval(f_opt, <<arg_opt>>, FALSE))
compose_form == ECompose(arg_opt, f_opt)
reordered == ast = call_form
\* f is a list literal without unrolled elements, or a slice literal
inlined_literal == (f_opt.e = "Literal" /\ ~any_unroll(f_opt.args)) \/ f_opt.e = "SliceLiteral"
\* the table of Expr::can_reorder, on purities
reorder_table(self, other) ==
    \/ self = PurityStrong
    \/ self = PurityWeak /\ other # PurityNone
    \/ self = PurityNone /\ other = PurityStrong

\* what can be observed of a run that has ended
outcome(m) == [status |-> m.status, error |-> m.error, output |-> m.output]

\* C6: when the optimizer has rewritten `arg . f` into the call f(arg), the
\* optimized program ends as the unoptimized program does: same result (Ok or
\* the same error) and same output.
C6_SameObservable ==
    (ComposeOptimized /\ reordered /\ Finished) => outcome(machine) = outcome(run_program(src))

\* (-print) . (-map) was rewritten into (-map)(-print): the optimized program
\* has raised the error of -map, the unoptimized one raises the error of -print
C6_Witness ==
    /\ ComposeOptimized /\ reordered
    /\ src = ECompose(EUnary("UnarySub", ENativeFunction("print")), EUnary("UnarySub", ENativeFunction("map")))
    /\ status = "error" /\ error = TypeErrorUnaryOp("UnarySub", VBinding("map"))
    /\ run_program(src).status = "error"
    /\ run_program(src).error = TypeErrorUnaryOp("UnarySub", VBinding("print"))

\* C7 as stated: `arg . f` is rewritten into f(arg) exactly when
\* can_reorder(f, arg) holds, can_reorder follows its table, and a compose
\* whose two sides both have purity None keeps the compose form.
C7_ReorderedExactlyWhen ==
    ComposeOptimized =>
        /\ reordered <=> can_reorder(f_opt, arg_opt)
        /\ can_reorder(f_opt, arg_opt) <=> reorder_table(purity(f_opt), purity(arg_opt))
        /\ (purity(f_opt) = PurityNone /\ purity(arg_opt) = PurityNone) => ast = compose_form

\* C7 amended: can_reorder follows its table; when f is neither a list
\* literal without unrolled elements nor a slice literal, `arg . f` becomes
\* the (re-optimized) call f(arg) exactly when the table allows it and keeps
\* the compose form otherwise; when f is such a literal the compose is inlined
\* into an index, a slice or an error, whatever the purities are.
C7_ReorderLegality ==
    ComposeOptimized =>
        /\ can_reorder(f_opt, arg_opt) <=> reorder_table(purity(f_opt), purity(arg_opt))
        /\ ~inlined_literal =>
            /\ reordered <=> reorder_table(purity(f_opt), purity(arg_opt))
            /\ ~reordered <=> ast = compose_form
        /\ inlined_literal => ast.e \in {"Index", "Slice", "RuntimeError"}

\* a variable composed with a call of print: Weak against None, not reordered
C7_Witness ==
    /\ ComposeOptimized
    /\ src = ECompose(print_of(EInt(1)), ELValue(0))
    /\ purity(f_opt) = PurityWeak /\ purity(arg_opt) = PurityNone
    /\ ast = compose_form
    /\ status = "running" /\ last.op = Swap


\* `f(inner...)(outer...)` after the optimizer pass
DoubleCallOptimized == Optimized /\ src \in DoubleCalls
inner_args == src.f.args
outer_args == src.args
\* the single call with the inner arguments followed by the outer ones; a
\* standard binary operator with two arguments is inlined as the operator
merged_form ==
    IF is_standard_binary_operator(src.f.f.f) /\ Len(inner_args \o outer_args) = 2
    THEN EBinary(as_standard_binary_operator(src.f.f.f), (inner_args \o outer_args)[1], (inner_args \o outer_args)[2])
    ELSE EEval(src.f.f, inner_args \o outer_args, src.any_unroll)
unmerged_form == EEval(optimize(src.f), outer_args, src.any_unroll)
merged == ast = merged_form /\ ast # unmerged_form
declared_arity_above_inner == nargs(src.f.f.f) # -1 /\ nargs(src.f.f.f) > Len(inner_args)

\* C8 as stated: two calls are merged only when f is a native function whose
\* declared arity is strictly greater than the number of inner arguments and
\* neither the inner nor the outer call uses unrolling.
C8_MergedOnlyWithoutUnroll ==
    (DoubleCallOptimized /\ merged) => (declared_arity_above_inner /\ ~src.f.any_unroll /\ ~src.any_unroll)

\* C8 amended: two calls are merged exactly when f is a native function whose
\* declared arity is strictly greater than the number of inner arguments and
\* the inner call uses no unrolling, whether or not the outer call does; the
\* merged call has the inner arguments followed by the outer ones and keeps
\* the outer call's unrolling; any other pair of calls is left as two calls.
C8_PartialCallMerging ==
    DoubleCallOptimized =>
        IF declared_arity_above_inner /\ ~src.f.any_unroll
        THEN ast = merged_form
        ELSE ast = unmerged_form

\* map()(...x): the outer call is unrolled, and the two calls are merged
C8_Witness ==
    /\ DoubleCallOptimized /\ merged
    /\ src.f.f = ENativeFunction("map") /\ inner_args = <<>> /\ src.any_unroll
    /\ ast = EEval(ENativeFunction("map"), <<EUnroll(ELValue(0), TRUE)>>, TRUE)

\* the result of the operator of a constant expression with constant operands
folded(e) ==
    IF e.e = "Unary" THEN apply_unary(e.op, as_constant(e.arg))
    ELSE apply_binary(e.op, as_constant(e.lhs), as_constant(e.rhs))

ComposeList == ComposeOptimized /\ src.f.e = "Literal"

\* C10: `arg . [e1, ..., en]` without unrolled elements becomes the index
\* expression arg[e1] (opcodes arg; e1; OpIndex) when n = 1 and an error node
\* carrying ValueErrorEvalListMustHaveUnitLength(n) for every other n,
\* the empty list included; with an unrolled element it becomes neither.
C10_ComposeIntoIndex ==
    ComposeList =>
        /\ (~any_unroll(src.f.args) /\ Len(src.f.args) = 1) =>
            /\ ast = EIndex(optimize(src.arg), optimize(src.f.args[1]))
            /\ status # "optimized" =>
                code = emit_expr(emit_expr(<<>>, optimize(src.arg)), optimize(src.f.args[1])) \o <<OpIndex, Pop, Exit>>
        /\ (~any_unroll(src.f.args) /\ Len(src.f.args) # 1) =>
            ast = ERuntimeError(ValueErrorEvalListMustHaveUnitLength(Len(src.f.args)))
        /\ any_unroll(src.f.args) => ast.e \notin {"Index", "RuntimeError"}

\* x . [1 + 1] has become x[2] and the index has been applied
C10_Witness ==
    /\ ComposeList
    /\ src = ECompose(ELValue(0), ELiteral(<<EBinary("OpAdd", EInt(1), EInt(1))>>))
    /\ ast = EIndex(ELValue(0), EInt(2))
    /\ code = <<PushGlobal(0), Constant(VInt(2)), OpIndex, Pop, Exit>>
    /\ last.op = OpIndex


----------------------------------------------------------------------------
(* User functions: call frames (OpFuncEval on a function, Return)           *)

\* the deepest nesting of calls, the highest stack and the longest stretch
\* of code in one function that the machine with user functions explores
MaxFrames == 3
MaxHeight == 5
MaxBody == 4

\* a function value: its first opcode and the number of its parameters
VFunction(head, n) == [t |-> "function", head |-> head, nargs |-> n]
Functions == {VFunction(10, 0), VFunction(20, 1), VFunction(30, 2)}
\* the index of an opcode within the function it belongs to (heads are 10 apart)
offset_in_body(at) == at % 10

Frame(return_ip, frame_pointer) == [return_ip |-> return_ip, frame_pointer |-> frame_pointer]

\* OpFuncEval(n) entering a function: the frame it pushes, `at` being the ip
\* after the call and `height` the height of the stack
entered_frame(at, height, n) == Frame(at, height - n)

\* a Return that would leave the callable under the return value
returned_stack_above_callable(s, frame) == SubSeq(s, 1, frame.frame_pointer) \o <<s[Len(s)]>>

\* Return: everything above frame_pointer - 1 goes, the return value goes
\* into the callable's slot
returned_stack(s, frame) == SubSeq(s, 1, frame.frame_pointer - 1) \o <<s[Len(s)]>>

\* the first slot the running function may not pop: above its parameters
locals_from == IF Len(call_stack) = 0 THEN 0 ELSE entered[Len(entered)].height

\* the machine with user functions, before main starts
InitFrames ==
    /\ NoLibrary
    /\ frame_ip = 0
    /\ frame_stack = <<>>
    /\ call_stack = <<>>
    /\ entered = <<>>
    /\ returned = NoReturn
    /\ src = NoSource /\ enable_opt = FALSE /\ ast = NoSource /\ code = <<>>
    /\ ip = 0 /\ stack = <<>> /\ globals = new_globals /\ output = <<>>
    /\ status = "functions" /\ error = NoError /\ last = NoOpcode /\ trace = <<>>

\* an opcode that pushes a value
FramePush ==
    /\ offset_in_body(frame_ip) < MaxBody
    /\ Len(frame_stack) < MaxHeight
    /\ \E v \in Functions \cup {VInt(0)} : frame_stack' = Append(frame_stack, v)
    /\ frame_ip' = frame_ip + 1
    /\ returned' = NoReturn
    /\ UNCHANGED <<call_stack, entered, pipeline_vars, library_vars>>

\* Pop, on a value the running function has pushed
FramePop ==
    /\ offset_in_body(frame_ip) < MaxBody
    /\ Len(frame_stack) > locals_from
    /\ frame_stack' = drop_n(frame_stack, 1)
    /\ frame_ip' = frame_ip + 1
    /\ returned' = NoReturn
    /\ UNCHANGED <<call_stack, entered, pipeline_vars, library_vars>>

\* OpFuncEval(n) on a function of n parameters
FrameCall ==
    /\ offset_in_body(frame_ip) < MaxBody
    /\ Len(call_stack) < MaxFrames
    /\ \E n \in 0..2 :
        /\ Len(frame_stack) - n > locals_from
        /\ frame_stack[Len(frame_stack) - n] \in Functions
        /\ frame_stack[Len(frame_stack) - n].nargs = n
        /\ call_stack' = Append(call_stack, entered_frame(frame_ip + 1, Len(frame_stack), n))
        /\ frame_ip' = frame_stack[Len(frame_stack) - n].head
        /\ entered' = Append(entered, [height |-> Len(frame_stack), n |-> n, at |-> frame_ip,
                                       below |-> SubSeq(frame_stack, 1, Len(frame_stack) - n - 1)])
    /\ returned' = NoReturn
    /\ UNCHANGED <<frame_stack, pipeline_vars, library_vars>>

\* Return, the return value being on top of the stack
FrameReturn ==
    /\ Len(call_stack) > 0
    /\ Len(frame_stack) > call_stack[Len(call_stack)].frame_pointer - 1
    /\ frame_stack' = returned_stack(frame_stack, call_stack[Len(call_stack)])
    /\ frame_ip' = call_stack[Len(call_stack)].return_ip
    /\ call_stack' = SubSeq(call_stack, 1, Len(call_stack) - 1)
    /\ entered' = SubSeq(entered, 1, Len(entered) - 1)
    /\ returned' = [n |-> entered[Len(entered)].n,
                    call |-> entered[Len(entered)],
                    value |-> frame_stack[Len(frame_stack)],
                    frames_before |-> call_stack]
    /\ UNCHANGED <<pipeline_vars, library_vars>>

NextFrames == FramePush \/ FramePop \/ FrameCall \/ FrameReturn

SpecFrames == InitFrames /\ [][NextFrames]_vars

\* the opcode executed last was a Return
JustReturned == returned # NoReturn

\* C2: a call of a user function with n arguments pushes a frame with
\* frame_pointer = stack length - n, the callable below it, and return_ip =
\* the ip after the call; its Return leaves, in place of the callable, its
\* arguments and its locals, exactly the return value, pops that frame (the
\* innermost one) and resumes at return_ip, the stack being n lower than
\* before the call.
C2_FrameDiscipline ==
    /\ Len(entered) = Len(call_stack)
    /\ \A k \in 1..Len(call_stack) :
        /\ call_stack[k].frame_pointer = entered[k].height - entered[k].n
        /\ call_stack[k].return_ip = entered[k].at + 1
        /\ frame_stack[call_stack[k].frame_pointer] \in Functions
        /\ frame_stack[call_stack[k].frame_pointer].nargs = entered[k].n
        /\ k > 1 => call_stack[k].frame_pointer > call_stack[k - 1].frame_pointer
    /\ JustReturned =>
        /\ frame_stack = returned.call.below \o <<returned.value>>
        /\ Len(frame_stack) = returned.call.height - returned.n
        /\ call_stack = SubSeq(returned.frames_before, 1, Len(returned.frames_before) - 1)
        /\ frame_ip = returned.frames_before[Len(returned.frames_before)].return_ip

\* a function of two parameters, called from inside another function, has
\* returned a value into its slot
C2_Witness ==
    /\ JustReturned
    /\ returned.n = 2
    /\ Len(returned.frames_before) = 2
    /\ Len(call_stack) = 1
    /\ Len(frame_stack) = returned.call.height - 2

----------------------------------------------------------------------------
(* The operator functions (vm::operator), on integers of a fixed width      *)

\* the width of the machine integer in bits (i64 in the source)
IntBits == 4

i64_MIN == -pow(2, IntBits - 1)
i64_MAX == pow(2, IntBits - 1) - 1

\* the two's complement value a wrapping operation leaves
wrap(x) ==
    LET m == x % pow(2, IntBits)
    IN  IF m > i64_MAX THEN m - pow(2, IntBits) ELSE m

\* overflow checks are compiled in ("debug") or not ("release")
Builds == {"debug", "release"}

\* an integer result, or the panic of an arithmetic overflow
Done(i) == [p |-> FALSE, i |-> i]
Overflow == [p |-> TRUE, i |-> 0]
Panic == [ok |-> FALSE, panic |-> TRUE]

\* `-x`, `x << n`, `x >> n` on i64: with overflow checks an overflow panics,
\* without them the value wraps and the shift amount is masked to the width
neg(x, build) ==
    IF -x <= i64_MAX THEN Done(-x)
    ELSE IF build = "debug" THEN Overflow ELSE Done(wrap(-x))

shl(x, n, build) ==
    IF n >= 0 /\ n < IntBits THEN Done(wrap(x * pow(2, n)))
    ELSE IF build = "debug" THEN Overflow ELSE Done(wrap(x * pow(2, n % IntBits)))

shr(x, n, build) ==
    IF n >= 0 /\ n < IntBits THEN Done(x \div pow(2, n))
    ELSE IF build = "debug" THEN Overflow ELSE Done(x \div pow(2, n % IntBits))

\* i64::div_euclid and i64::rem_euclid for b # 0: a = q * b + r with
\* 0 <= r < |b|; MIN.div_euclid(-1) panics in every build
div_euclid(a, b) ==
    IF a = i64_MIN /\ b = -1 THEN Overflow
    ELSE IF b > 0 THEN Done(a \div b) ELSE Done(-(a \div (-b)))

rem_euclid(a, b) == a % Abs(b)

VList(items) == [t |-> "list", v |-> items]
is_list(v) == v.t = "list"

binary_div(a1, a2, build) ==
    IF is_int(a1) /\ is_int(a2) /\ a2.v # 0
    THEN IF a2.v < 0
         THEN LET n == neg(a1.v, build)
                  d == IF n.p THEN Overflow ELSE div_euclid(n.i, a2.v)
                  r == IF d.p THEN Overflow ELSE neg(d.i, build)
              IN  IF r.p THEN Panic ELSE Ok(VInt(r.i))
         ELSE LET d == div_euclid(a1.v, a2.v)
              IN  IF d.p THEN Panic ELSE Ok(VInt(d.i))
    ELSE Err(TypeErrorBinaryOp("OpDiv", a1, a2))

\* a variant of binary_mod: the remainder that takes the sign of the dividend
binary_mod_remainder(a1, a2) ==
    IF is_int(a1) /\ is_int(a2) /\ a2.v > 0
    THEN Ok(VInt(RustRem(a1.v, a2.v)))
    ELSE Err(TypeErrorBinaryOp("OpMod", a1, a2))

binary_mod(a1, a2) ==
    IF is_int(a1) /\ is_int(a2) /\ a2.v > 0
    THEN Ok(VInt(rem_euclid(a1.v, a2.v)))
    ELSE Err(TypeErrorBinaryOp("OpMod", a1, a2))

shifted(r) == IF r.p THEN Panic ELSE Ok(VInt(r.i))

\* a variant of binary_left_shift: a negative amount shifts left by its magnitude
binary_left_shift_by_magnitude(a1, a2, build) ==
    CASE is_int(a1) /\ is_int(a2) ->
            LET n == IF a2.v >= 0 THEN Done(a2.v) ELSE neg(a2.v, build)
            IN  IF n.p THEN Panic ELSE shifted(shl(a1.v, n.i, build))
      [] is_list(a1) -> Ok(VList(Append(a1.v, a2)))
      [] OTHER -> Err(TypeErrorBinaryOp("OpLeftShift", a1, a2))

binary_left_shift(a1, a2, build) ==
    CASE is_int(a1) /\ is_int(a2) ->
            IF a2.v >= 0 THEN shifted(shl(a1.v, a2.v, build))
            ELSE LET n == neg(a2.v, build)
                 IN  IF n.p THEN Panic ELSE shifted(shr(a1.v, n.i, build))
      [] is_list(a1) -> Ok(VList(Append(a1.v, a2)))
      [] OTHER -> Err(TypeErrorBinaryOp("OpLeftShift", a1, a2))

binary_right_shift(a1, a2, build) ==
    CASE is_int(a1) /\ is_int(a2) ->
            IF a2.v >= 0 THEN shifted(shr(a1.v, a2.v, build))
            ELSE LET n == neg(a2.v, build)
                 IN  IF n.p THEN Panic ELSE shifted(shl(a1.v, n.i, build))
      [] is_list(a2) -> Ok(VList(<<a1>> \o a2.v))
      [] OTHER -> Err(TypeErrorBinaryOp("OpRightShift", a1, a2))

\* VirtualMachine::run (OpDiv, OpMod) on two popped operands: `/` and `%` on
\* i64 panic for MIN and -1 in every build
vm_arm(op, a1, a2) ==
    IF is_int(a1) /\ is_int(a2) /\ a1.v = i64_MIN /\ a2.v = -1
    THEN Panic
    ELSE vm_binary(op, a1, a2)

OperatorFunctions == {"binary_div", "binary_mod", "binary_left_shift", "binary_right_shift"}
VmArms == {"OpDiv", "OpMod"}

\* the operands: every integer of the width, and values of other types
OperandValues ==
    {VInt(i) : i \in i64_MIN..i64_MAX} \cup {VNil, VList(<<>>), VList(<<VInt(1)>>)}

InitOperators ==
    /\ NoFrames
    /\ src = NoSource /\ enable_opt = FALSE /\ ast = NoSource /\ code = <<>>
    /\ ip = 0 /\ stack = <<>> /\ globals = new_globals /\ output = <<>>
    /\ status = "operators" /\ error = NoError /\ last = NoOpcode /\ trace = <<>>
    /\ heap = <<>> /\ lib = NoCall
    /\ op_call \in [f : {"args"}, a1 : OperandValues, a2 : OperandValues, build : Builds]

called(f, ret) ==
    [f |-> f, a1 |-> op_call.a1, a2 |-> op_call.a2, build |-> op_call.build, ret |-> ret]

BinaryDiv ==
    /\ op_call.f = "args"
    /\ op_call' = called("binary_div", binary_div(op_call.a1, op_call.a2, op_call.build))
    /\ UNCHANGED <<pipeline_vars, frame_vars, heap, lib>>

BinaryMod ==
    /\ op_call.f = "args"
    /\ op_call' = called("binary_mod", binary_mod(op_call.a1, op_call.a2))
    /\ UNCHANGED <<pipeline_vars, frame_vars, heap, lib>>

BinaryLeftShift ==
    /\ op_call.f = "args"
    /\ op_call' = called("binary_left_shift", binary_left_shift(op_call.a1, op_call.a2, op_call.build))
    /\ UNCHANGED <<pipeline_vars, frame_vars, heap, lib>>

BinaryRightShift ==
    /\ op_call.f = "args"
    /\ op_call' = called("binary_right_shift", binary_right_shift(op_call.a1, op_call.a2, op_call.build))
    /\ UNCHANGED <<pipeline_vars, frame_vars, heap, lib>>

VmOperator ==
    /\ op_call.f = "args"
    /\ \E op \in VmArms : op_call' = called(op, vm_arm(op, op_call.a1, op_call.a2))
    /\ UNCHANGED <<pipeline_vars, frame_vars, heap, lib>>

NextOperators == BinaryDiv \/ BinaryMod \/ BinaryLeftShift \/ BinaryRightShift \/ VmOperator

SpecOperators == InitOperators /\ [][NextOperators]_vars

----------------------------------------------------------------------------
(* Properties of the operator functions                                     *)

sign(x) == IF x > 0 THEN 1 ELSE IF x < 0 THEN -1 ELSE 0
representable(x) == x >= i64_MIN /\ x <= i64_MAX

\* a call of f on two integers has returned
int_call(f) == op_call.f = f /\ is_int(op_call.a1) /\ is_int(op_call.a2)

\* C11: for all ints a and b with b # 0, binary_div(a, b) is
\* sign(a * b) * floor(|a| / |b|): the quotient of the magnitudes with the
\* sign applied afterwards.
C11_DivisionByMagnitude ==
    LET a == op_call.a1.v
        b == op_call.a2.v
        q == sign(a * b) * (Abs(a) \div Abs(b))
    IN  (int_call("binary_div") /\ b # 0 /\ representable(q)) =>
            op_call.ret = Ok(VInt(q))

\* binary_div(-5, 3) has returned -2, where the quotient of the magnitudes
\* with the sign applied is -1
C11_Witness ==
    /\ int_call("binary_div")
    /\ op_call.a1 = VInt(-5) /\ op_call.a2 = VInt(3)
    /\ op_call.ret = Ok(VInt(-2))
    /\ sign(-5 * 3) * (Abs(-5) \div Abs(3)) = -1


\* the symmetry of three quotients: q = a / b, qa = (-a) / b, qb = a / (-b)
symmetric(q, qa, qb) == q.ok /\ qa = qb /\ qb = unary_sub(q.v)

\* C12: for all ints a and b with b # 0, (-a) / b, a / (-b) and -(a / b)
\* are the same value.
C12_DivisionSymmetry ==
    LET a == op_call.a1.v
        b == op_call.a2.v
        div(x, y) == binary_div(VInt(x), VInt(y), op_call.build)
    IN  (int_call("binary_div") /\ b # 0 /\ a # i64_MIN /\ b # i64_MIN) =>
            symmetric(div(a, b), div(-a, b), div(a, -b))

\* 1 / 2 has returned 0, and both (-1) / 2 and 1 / (-2) are -1
C12_Witness ==
    /\ int_call("binary_div")
    /\ op_call.a1 = VInt(1) /\ op_call.a2 = VInt(2)
    /\ op_call.ret = Ok(VInt(0))
    /\ binary_div(VInt(-1), VInt(2), op_call.build) = Ok(VInt(-1))
    /\ binary_div(VInt(1), VInt(-2), op_call.build) = Ok(VInt(-1))


ValueErrorValueMustBePositive(i) == [t |-> "ValueErrorValueMustBePositive", i |-> i]

\* C14: for all ints a and b with b <= 0, a % b produces no value and raises
\* ValueErrorValueMustBePositive(b), in the operator function and in the
\* machine's own arm.
C14_ModuloNonPositive ==
    LET b == op_call.a2.v
    IN  ((int_call("binary_mod") \/ int_call("OpMod")) /\ b <= 0) =>
            op_call.ret = Err(ValueErrorValueMustBePositive(b))

\* 5 % 0 has raised the type error of the modulo operator
C14_Witness ==
    /\ int_call("binary_mod")
    /\ op_call.a1 = VInt(5) /\ op_call.a2 = VInt(0)
    /\ op_call.ret = Err(TypeErrorBinaryOp("OpMod", VInt(5), VInt(0)))


\* C15: for all ints a and n > 0, a << -n is a >> n and a >> -n is a << n;
\* for n within the width the former is a divided by 2^n, rounded down.
C15_ShiftByNegative ==
    LET a == op_call.a1
        n == -op_call.a2.v
    IN  /\ (int_call("binary_left_shift") /\ n > 0 /\ n <= i64_MAX) =>
                /\ op_call.ret = binary_right_shift(a, VInt(n), op_call.build)
                /\ n < IntBits => op_call.ret = Ok(VInt(a.v \div pow(2, n)))
        /\ (int_call("binary_right_shift") /\ n > 0 /\ n <= i64_MAX) =>
                /\ op_call.ret = binary_left_shift(a, VInt(n), op_call.build)
                /\ n < IntBits => op_call.ret = Ok(VInt(wrap(a.v * pow(2, n))))

\* 4 << -1 has returned 2, which is 4 >> 1 and not 4 << 1
C15_Witness ==
    /\ int_call("binary_left_shift")
    /\ op_call.a1 = VInt(4) /\ op_call.a2 = VInt(-1)
    /\ op_call.ret = Ok(VInt(2))
    /\ binary_right_shift(VInt(4), VInt(1), op_call.build) = Ok(VInt(2))
    /\ binary_left_shift(VInt(4), VInt(1), op_call.build) # Ok(VInt(2))

----------------------------------------------------------------------------
(* Slicing (core::collections::get_slice, stdlib::lib_list::list_slice)     *)

\* the longest list, the largest slice position and the largest slice step
MaxList == 3
MaxPos == 4
MaxStride == 2

ValueErrorStepCannotBeZero == [t |-> "ValueErrorStepCannotBeZero"]
TypeErrorArgMustBeInt(v) == [t |-> "TypeErrorArgMustBeInt", v |-> v]
TypeErrorArgMustBeSliceable(v) == [t |-> "TypeErrorArgMustBeSliceable", v |-> v]
SliceStepZero == [t |-> "SliceStepZero"]
TypeErrorSliceArgMustBeInt(n, v) == [t |-> "TypeErrorSliceArgMustBeInt", n |-> n, v |-> v]
TypeErrorCannotSlice(v) == [t |-> "TypeErrorCannotSlice", v |-> v]

is_nil(v) == v.t = "nil"

to_index(len, pos_or_neg) == IF pos_or_neg >= 0 THEN pos_or_neg ELSE len + pos_or_neg

\* (start..stop).step_by(k): start, start + k, .. below stop
RECURSIVE range(_, _, _)
range(start, stop, k) ==
    IF start >= stop THEN <<>> ELSE <<start>> \o range(start + k, stop, k)

\* rev_range(start, stop).step_by(k): start, start - k, .. above stop
RECURSIVE rev_range(_, _, _)
rev_range(start, stop, k) ==
    IF start <= stop THEN <<>> ELSE <<start>> \o rev_range(start - k, stop, k)

\* Slice::accept for each index in turn, and safe_get: an index outside the
\* sequence contributes nothing, the others contribute their element
RECURSIVE accept(_, _)
accept(items, indices) ==
    IF indices = <<>> THEN <<>>
    ELSE LET i == Head(indices)
         IN  (IF i >= 0 /\ i < Len(items) THEN <<items[i + 1]>> ELSE <<>>)
                \o accept(items, Tail(indices))

\* a variant of get_slice: a nil bound defaults as for a positive step
get_slice_forward_defaults(target, low, high, step_arg) ==
    LET length == Len(target.v)
        int_or_nil(v) == is_int(v) \/ is_nil(v)
        unwrap_or(v, default) == IF is_int(v) THEN v.v ELSE default
        stride == unwrap_or(step_arg, 1)
        lo == unwrap_or(low, 0)
        hi == unwrap_or(high, length)
        abs_start == to_index(length, lo)
        abs_stop == to_index(length, hi)
        abs_step == Abs(stride)
    IN  CASE ~is_list(target) -> Err(TypeErrorArgMustBeSliceable(target))
          [] ~int_or_nil(step_arg) -> Err(TypeErrorArgMustBeInt(step_arg))
          [] stride = 0 -> Err(ValueErrorStepCannotBeZero)
          [] ~int_or_nil(low) -> Err(TypeErrorArgMustBeInt(low))
          [] ~int_or_nil(high) -> Err(TypeErrorArgMustBeInt(high))
          [] stride > 0 -> Ok(VList(accept(target.v, range(abs_start, abs_stop, abs_step))))
          [] OTHER -> Ok(VList(accept(target.v, rev_range(abs_start, abs_stop, abs_step))))

get_slice(target, low, high, step_arg) ==
    LET length == Len(target.v)
        int_or_nil(v) == is_int(v) \/ is_nil(v)
        unwrap_or(v, default) == IF is_int(v) THEN v.v ELSE default
        stride == unwrap_or(step_arg, 1)
        lo == unwrap_or(low, IF stride > 0 THEN 0 ELSE -1)
        hi == unwrap_or(high, IF stride > 0 THEN length ELSE -length - 1)
        abs_start == to_index(length, lo)
        abs_stop == to_index(length, hi)
        abs_step == Abs(stride)
    IN  CASE ~is_list(target) -> Err(TypeErrorArgMustBeSliceable(target))
          [] ~int_or_nil(step_arg) -> Err(TypeErrorArgMustBeInt(step_arg))
          [] stride = 0 -> Err(ValueErrorStepCannotBeZero)
          [] ~int_or_nil(low) -> Err(TypeErrorArgMustBeInt(low))
          [] ~int_or_nil(high) -> Err(TypeErrorArgMustBeInt(high))
          [] stride > 0 -> Ok(VList(accept(target.v, range(abs_start, abs_stop, abs_step))))
          [] OTHER -> Ok(VList(accept(target.v, rev_range(abs_start, abs_stop, abs_step))))

list_slice(a1, a2, a3, a4) ==
    LET length == Len(a1.v)
        int_or_nil(v) == is_int(v) \/ is_nil(v)
        slice_arg(v, default) == IF is_int(v) THEN v.v ELSE default
        stride == slice_arg(a4, 1)
        lo == slice_arg(a2, IF stride > 0 THEN 0 ELSE -1)
        hi == slice_arg(a3, IF stride > 0 THEN 0 ELSE -length - 1)
        abs_start == to_index(length, lo)
        abs_step == Abs(stride)
    IN  CASE ~is_list(a1) -> Err(TypeErrorCannotSlice(a1))
          [] ~int_or_nil(a4) -> Err(TypeErrorSliceArgMustBeInt("step", a4))
          [] stride = 0 -> Err(SliceStepZero)
          [] ~int_or_nil(a2) -> Err(TypeErrorSliceArgMustBeInt("low", a2))
          [] ~int_or_nil(a3) -> Err(TypeErrorSliceArgMustBeInt("high", a3))
          [] stride > 0 ->
                \* (abs_start..=abs_stop) with abs_stop = to_index(length, high - 1)
                Ok(VList(accept(a1.v, range(abs_start, to_index(length, hi - 1) + 1, abs_step))))
          [] OTHER -> Ok(VList(accept(a1.v, rev_range(abs_start, to_index(length, hi), abs_step))))

\* the lists 1, 2, .. of each length, and a value that is no sequence
SliceTargets == {VList([i \in 1..n |-> VInt(i)]) : n \in 0..MaxList} \cup {VNil}
SlicePositions == {VInt(i) : i \in -MaxPos..MaxPos} \cup {VNil, VBool(TRUE)}
SliceSteps == {VInt(i) : i \in -MaxStride..MaxStride} \cup {VNil, VBool(TRUE)}

InitSlices ==
    /\ NoFrames
    /\ src = NoSource /\ enable_opt = FALSE /\ ast = NoSource /\ code = <<>>
    /\ ip = 0 /\ stack = <<>> /\ globals = new_globals /\ output = <<>>
    /\ status = "slices" /\ error = NoError /\ last = NoOpcode /\ trace = <<>>
    /\ heap = <<>> /\ lib = NoCall
    /\ op_call \in [f : {"operands"}, target : SliceTargets, low : SlicePositions,
                    high : SlicePositions, step : SliceSteps]

sliced(f, ret) ==
    [f |-> f, target |-> op_call.target, low |-> op_call.low, high |-> op_call.high,
     step |-> op_call.step, ret |-> ret]

\* target[low:high:step] by get_slice
GetSlice ==
    /\ op_call.f = "operands"
    /\ op_call' = sliced("get_slice", get_slice(op_call.target, op_call.low, op_call.high, op_call.step))
    /\ UNCHANGED <<pipeline_vars, frame_vars, heap, lib>>

\* target[low:high:step] by list_slice
ListSlice ==
    /\ op_call.f = "operands"
    /\ op_call' = sliced("list_slice", list_slice(op_call.target, op_call.low, op_call.high, op_call.step))
    /\ UNCHANGED <<pipeline_vars, frame_vars, heap, lib>>

\* the slice that get_slice returned, sliced again with [::-1]
GetSliceReversed ==
    /\ op_call.f = "get_slice"
    /\ op_call.ret.ok
    /\ op_call' = [f |-> "get_slice[::-1]", target |-> op_call.target, low |-> op_call.low,
                   high |-> op_call.high, step |-> op_call.step, ret |-> op_call.ret,
                   reversed |-> get_slice(op_call.ret.v, VNil, VNil, VInt(-1))]
    /\ UNCHANGED <<pipeline_vars, frame_vars, heap, lib>>

NextSlices == GetSlice \/ ListSlice \/ GetSliceReversed

SpecSlices == InitSlices /\ [][NextSlices]_vars

----------------------------------------------------------------------------
(* Properties of slicing                                                    *)

int_or_nil(v) == is_int(v) \/ is_nil(v)

\* the elements of items at the indices i >= from with lo <= i < hi and
\* i = lo + k * s, in increasing order of i
RECURSIVE picked(_, _, _, _, _)
picked(items, from, lo, hi, s) ==
    IF from >= Len(items) THEN <<>>
    ELSE (IF lo <= from /\ from < hi /\ (from - lo) % s = 0 THEN <<items[from + 1]>> ELSE <<>>)
            \o picked(items, from + 1, lo, hi, s)

\* a slice of a list with a positive step and int-or-nil bounds has returned
positive_step_slice(f) ==
    /\ op_call.f = f
    /\ is_list(op_call.target)
    /\ int_or_nil(op_call.low) /\ int_or_nil(op_call.high)
    /\ is_nil(op_call.step) \/ (is_int(op_call.step) /\ op_call.step.v > 0)

\* what the slice holds: the elements at lo, lo + s, .. below hi
positive_step_expected ==
    LET items == op_call.target.v
        n == Len(items)
        s == IF is_nil(op_call.step) THEN 1 ELSE op_call.step.v
        lo == IF is_nil(op_call.low) THEN 0 ELSE to_index(n, op_call.low.v)
        hi == IF is_nil(op_call.high) THEN n ELSE to_index(n, op_call.high.v)
    IN  Ok(VList(picked(items, 0, lo, hi, s)))

\* C16: a slice with step s > 0 holds exactly the elements at the valid
\* indices lo, lo + s, lo + 2s, .. below hi, in increasing order, where a nil
\* low is 0 and a nil high is the length; an explicit high of 0 gives the
\* empty list.
C16_PositiveStepSlice ==
    (positive_step_slice("get_slice") \/ positive_step_slice("list_slice")) =>
        op_call.ret = positive_step_expected

\* list_slice of [1, 2, 3] with low 0 and an explicit high of 0 has returned
\* the whole list
C16_Witness ==
    /\ positive_step_slice("list_slice")
    /\ op_call.target = VList(<<VInt(1), VInt(2), VInt(3)>>)
    /\ op_call.low = VInt(0) /\ op_call.high = VInt(0) /\ op_call.step = VNil
    /\ op_call.ret = Ok(op_call.target)
    /\ positive_step_expected = Ok(VList(<<>>))


reverse_of(s) == [i \in 1..Len(s) |-> s[Len(s) + 1 - i]]

\* L[::s] has been computed and sliced again with [::-1]
round_trip ==
    /\ op_call.f = "get_slice[::-1]"
    /\ is_nil(op_call.low) /\ is_nil(op_call.high)
    /\ is_int(op_call.step) /\ op_call.step.v # 0

\* C17: for every list L, the empty one included, and every step s # 0,
\* L[::s] sliced with [::-1] is L[::s] in reverse order.
C17_SliceRoundTrip ==
    round_trip => op_call.reversed = Ok(VList(reverse_of(op_call.ret.v.v)))

\* [1, 2, 3][::2] is [1, 3], and slicing that with [::-1] has given [3, 1]
C17_Witness ==
    /\ round_trip
    /\ op_call.target = VList(<<VInt(1), VInt(2), VInt(3)>>)
    /\ op_call.step = VInt(2)
    /\ op_call.ret = Ok(VList(<<VInt(1), VInt(3)>>))
    /\ op_call.reversed = Ok(VList(<<VInt(3), VInt(1)>>))

----------------------------------------------------------------------------
(* Dict indexing with a default producer (core::collections::get_dict_index) *)

\* keys and values are the ints 1 .. MaxElement
MaxElement == 2
\* the most dict operations one invocation of the producer performs
MaxProducerOps == 2

Elements == {VInt(i) : i \in 1..MaxElement}

ValueErrorKeyNotPresent(key) == [t |-> "ValueErrorKeyNotPresent", key |-> key]
\* an error raised by the body of the default producer
ProducerError == [t |-> "RuntimeError", by |-> "producer"]

\* a RefCell: the number of shared borrows and whether it is mutably borrowed
Unborrowed(o) == o.shared = 0 /\ ~o.exclusive
can_borrow(o) == ~o.exclusive
can_borrow_mut(o) == Unborrowed(o)

DictEntries == UNION {[S -> Elements] : S \in SUBSET Elements}
has_key(entries, key) == key \in DOMAIN entries

\* IndexMap::insert
dict_insert(entries, key, val) ==
    [k \in DOMAIN entries \cup {key} |-> IF k = key THEN val ELSE entries[k]]

\* IndexMap::remove
dict_remove(entries, key) == [k \in DOMAIN entries \ {key} |-> entries[k]]

\* a variant of entry_or_insert: the value is inserted whether or not the key is present
entry_insert(entries, key, val) == dict_insert(entries, key, val)

\* IndexMap::entry(key).or_insert(value)
entry_or_insert(entries, key, val) ==
    IF has_key(entries, key) THEN entries ELSE dict_insert(entries, key, val)

InitDict ==
    /\ NoFrames
    /\ src = NoSource /\ enable_opt = FALSE /\ ast = NoSource /\ code = <<>>
    /\ ip = 0 /\ stack = <<>> /\ globals = new_globals /\ output = <<>>
    /\ status = "dict" /\ error = NoError /\ last = NoOpcode /\ trace = <<>>
    /\ op_call = NoCall
    /\ \E entries \in DictEntries, default \in {"None", "Some"} :
        heap = [dict |-> [entries |-> entries, default |-> default, shared |-> 0, exclusive |-> FALSE]]
    /\ \E key \in Elements :
        lib = [f |-> "get_dict_index", pc |-> "call", key |-> key, invoked |-> 0, ops |-> 0,
               before |-> heap.dict.entries, produced |-> <<>>, new_value |-> VNil, ret |-> VNil]

\* let dict = dict.borrow()
DictBorrow ==
    /\ lib.f = "get_dict_index" /\ lib.pc = "call"
    /\ IF can_borrow(heap.dict)
       THEN /\ heap' = [heap EXCEPT !.dict.shared = @ + 1]
            /\ lib' = [lib EXCEPT !.pc = "borrowed"]
       ELSE /\ lib' = [lib EXCEPT !.pc = "panic"]
            /\ UNCHANGED heap
    /\ UNCHANGED <<pipeline_vars, frame_vars, op_call>>

\* the match on the default and on the key, to the end of the borrow's scope
DictLookup ==
    /\ lib.f = "get_dict_index" /\ lib.pc = "borrowed"
    /\ LET d == heap.dict
       IN  lib' = CASE has_key(d.entries, lib.key) ->
                        [lib EXCEPT !.pc = "done", !.ret = Ok(d.entries[lib.key])]
                   [] d.default = "None" ->
                        [lib EXCEPT !.pc = "done", !.ret = Err(ValueErrorKeyNotPresent(lib.key))]
                   [] OTHER -> [lib EXCEPT !.pc = "invoke"]
    /\ heap' = [heap EXCEPT !.dict.shared = @ - 1]
    /\ UNCHANGED <<pipeline_vars, frame_vars, op_call>>

\* the producer's body inserts into the dict (insert, under borrow_mut)
ProducerInsert ==
    /\ lib.f = "get_dict_index" /\ lib.pc = "invoke" /\ lib.ops < MaxProducerOps
    /\ \E k \in Elements, v \in Elements :
        IF can_borrow_mut(heap.dict)
        THEN /\ heap' = [heap EXCEPT !.dict.entries = dict_insert(@, k, v)]
             /\ lib' = [lib EXCEPT !.ops = @ + 1]
        ELSE /\ lib' = [lib EXCEPT !.pc = "panic"]
             /\ UNCHANGED heap
    /\ UNCHANGED <<pipeline_vars, frame_vars, op_call>>

\* the producer's body removes from the dict (remove, under borrow_mut)
ProducerRemove ==
    /\ lib.f = "get_dict_index" /\ lib.pc = "invoke" /\ lib.ops < MaxProducerOps
    /\ \E k \in Elements :
        IF can_borrow_mut(heap.dict)
        THEN /\ heap' = [heap EXCEPT !.dict.entries = dict_remove(@, k)]
             /\ lib' = [lib EXCEPT !.ops = @ + 1]
        ELSE /\ lib' = [lib EXCEPT !.pc = "panic"]
             /\ UNCHANGED heap
    /\ UNCHANGED <<pipeline_vars, frame_vars, op_call>>

\* default_factory.invoke(vm) returns a value
ProducerReturn ==
    /\ lib.f = "get_dict_index" /\ lib.pc = "invoke"
    /\ \E v \in Elements :
        lib' = [lib EXCEPT !.pc = "produced", !.new_value = v, !.invoked = @ + 1,
                           !.produced = heap.dict.entries]
    /\ UNCHANGED <<pipeline_vars, frame_vars, op_call, heap>>

\* default_factory.invoke(vm)? returns an error
ProducerRaise ==
    /\ lib.f = "get_dict_index" /\ lib.pc = "invoke"
    /\ lib' = [lib EXCEPT !.pc = "done", !.ret = Err(ProducerError), !.invoked = @ + 1,
                          !.produced = heap.dict.entries]
    /\ UNCHANGED <<pipeline_vars, frame_vars, op_call, heap>>

\* dict.borrow_mut(), entry(key).or_insert(new_value).clone()
DictInsert ==
    /\ lib.f = "get_dict_index" /\ lib.pc = "produced"
    /\ IF can_borrow_mut(heap.dict)
       THEN LET entries == entry_or_insert(heap.dict.entries, lib.key, lib.new_value)
            IN  /\ heap' = [heap EXCEPT !.dict.entries = entries]
                /\ lib' = [lib EXCEPT !.pc = "done", !.ret = Ok(entries[lib.key])]
       ELSE /\ lib' = [lib EXCEPT !.pc = "panic"]
            /\ UNCHANGED heap
    /\ UNCHANGED <<pipeline_vars, frame_vars, op_call>>

NextDict ==
    \/ DictBorrow \/ DictLookup
    \/ ProducerInsert \/ ProducerRemove \/ ProducerReturn \/ ProducerRaise
    \/ DictInsert

SpecDict == InitDict /\ [][NextDict]_vars

----------------------------------------------------------------------------
(* Properties of dict indexing                                              *)

indexed == lib.f = "get_dict_index" /\ lib.pc = "done"
absent_with_default == ~has_key(lib.before, lib.key) /\ heap.dict.default = "Some"

\* C18: indexing with an absent key invokes the default producer exactly
\* once, while no borrow of the dict is held; afterwards the dict has an
\* entry for the key and the returned value is that entry: the one the
\* producer inserted itself if it did, the producer's result otherwise, the
\* other entries being as the producer left them. Indexing with a present key
\* never invokes the producer and leaves the dict unchanged.
C18_DefaultProducer ==
    /\ lib.f = "get_dict_index" =>
        /\ lib.pc # "panic"
        /\ lib.pc \in {"invoke", "produced"} => Unborrowed(heap.dict)
    /\ (indexed /\ absent_with_default /\ lib.ret.ok) =>
        /\ lib.invoked = 1
        /\ Unborrowed(heap.dict)
        /\ has_key(heap.dict.entries, lib.key)
        /\ lib.ret = Ok(heap.dict.entries[lib.key])
        /\ IF has_key(lib.produced, lib.key)
           THEN heap.dict.entries = lib.produced
           ELSE heap.dict.entries = dict_insert(lib.produced, lib.key, lib.new_value)
    /\ (indexed /\ has_key(lib.before, lib.key)) =>
        /\ lib.invoked = 0
        /\ heap.dict.entries = lib.before
        /\ lib.ret = Ok(lib.before[lib.key])

\* the producer inserted the value 1 under the absent key 2 and returned 2;
\* indexing has returned 1 and the dict holds 1 under the key
C18_Witness ==
    /\ indexed /\ absent_with_default
    /\ lib.key = VInt(2) /\ lib.new_value = VInt(2)
    /\ has_key(lib.produced, lib.key) /\ lib.produced[lib.key] = VInt(1)
    /\ lib.ret = Ok(VInt(1))
    /\ heap.dict.entries[lib.key] = VInt(1)

----------------------------------------------------------------------------
(* In-place set operations (set_union, set_intersect, set_difference)       *)

TypeErrorArgMustBeSet(v) == [t |-> "TypeErrorArgMustBeSet", v |-> v]
TypeErrorArgMustBeIterable(v) == [t |-> "TypeErrorArgMustBeIterable", v |-> v]

\* a reference to the set object `id` of the heap
VSet(id) == [t |-> "set", id |-> id]
is_set(v) == v.t = "set"
is_iterable(v) == is_set(v) \/ is_list(v) \/ is_str(v)

SetOperations == {"set_union", "set_intersect", "set_difference"}

\* the elements of a set object as its iterator yields them
RECURSIVE elements_in_order(_)
elements_in_order(S) ==
    IF S = {} THEN <<>>
    ELSE LET first == CHOOSE x \in S : \A y \in S : x.v <= y.v
         IN  <<first>> \o elements_in_order(S \ {first})

items_of(s) == {s[i] : i \in 1..Len(s)}

\* `this` after the whole operation, for the elements `other` yields
set_result(f, elements, others) ==
    CASE f = "set_union" -> elements \cup others
      [] f = "set_intersect" -> elements \cap others
      [] f = "set_difference" -> elements \ others

SetObjects == [elements : SUBSET Elements, shared : {0}, exclusive : {FALSE}]

InitSets ==
    /\ NoFrames
    /\ src = NoSource /\ enable_opt = FALSE /\ ast = NoSource /\ code = <<>>
    /\ ip = 0 /\ stack = <<>> /\ globals = new_globals /\ output = <<>>
    /\ status = "sets" /\ error = NoError /\ last = NoOpcode /\ trace = <<>>
    /\ op_call = NoCall
    /\ heap \in [a : SetObjects, b : SetObjects]
    /\ \E f \in SetOperations,
          this \in {VSet("a"), VList(<<>>)},
          other \in {VSet("a"), VSet("b"), VList(<<VInt(1)>>), VInt(1), VNil} :
        lib = [f |-> f, pc |-> "call", this |-> this, other |-> other,
               before |-> heap.a.elements, pending |-> <<>>, ret |-> VNil]

\* match this.ty(), and this.as_set().borrow_mut()
SetBorrowMut ==
    /\ lib.f \in SetOperations /\ lib.pc = "call"
    /\ CASE ~is_set(lib.this) ->
                /\ lib' = [lib EXCEPT !.pc = "done", !.ret = Err(TypeErrorArgMustBeSet(lib.this))]
                /\ UNCHANGED heap
         [] is_set(lib.this) /\ can_borrow_mut(heap[lib.this.id]) ->
                /\ heap' = [heap EXCEPT ![lib.this.id].exclusive = TRUE]
                /\ lib' = [lib EXCEPT !.pc = "borrowed"]
         [] OTHER ->
                /\ lib' = [lib EXCEPT !.pc = "panic"]
                /\ UNCHANGED heap
    /\ UNCHANGED <<pipeline_vars, frame_vars, op_call>>

\* other.to_iter()?: the error of a value that is not iterable leaves the
\* function and drops the mutable borrow; iterating a set borrows it
SetToIter ==
    /\ lib.f \in SetOperations /\ lib.pc = "borrowed"
    /\ CASE ~is_iterable(lib.other) ->
                /\ heap' = [heap EXCEPT ![lib.this.id].exclusive = FALSE]
                /\ lib' = [lib EXCEPT !.pc = "done", !.ret = Err(TypeErrorArgMustBeIterable(lib.other))]
         [] is_set(lib.other) /\ ~can_borrow(heap[lib.other.id]) ->
                /\ lib' = [lib EXCEPT !.pc = "panic"]
                /\ UNCHANGED heap
         [] is_set(lib.other) /\ can_borrow(heap[lib.other.id]) ->
                /\ lib' = [lib EXCEPT !.pc = "iterating",
                                      !.pending = elements_in_order(heap[lib.other.id].elements)]
                /\ UNCHANGED heap
         [] OTHER ->
                /\ lib' = [lib EXCEPT !.pc = "iterating", !.pending = lib.other.v]
                /\ UNCHANGED heap
    /\ UNCHANGED <<pipeline_vars, frame_vars, op_call>>

\* one round of the loop of set_union or set_difference, or the collect and
\* retain of set_intersect
SetApply ==
    /\ lib.f \in SetOperations /\ lib.pc = "iterating"
    /\ \/ lib.f = "set_intersect"
       \/ lib.pending # <<>>
    /\ LET id == lib.this.id
       IN  CASE lib.f = "set_union" ->
                    /\ heap' = [heap EXCEPT ![id].elements = @ \cup {Head(lib.pending)}]
                    /\ lib' = [lib EXCEPT !.pending = Tail(@)]
             [] lib.f = "set_difference" ->
                    /\ heap' = [heap EXCEPT ![id].elements = @ \ {Head(lib.pending)}]
                    /\ lib' = [lib EXCEPT !.pending = Tail(@)]
             [] lib.f = "set_intersect" ->
                    /\ heap' = [heap EXCEPT ![id].elements = @ \cap items_of(lib.pending),
                                            ![id].exclusive = FALSE]
                    /\ lib' = [lib EXCEPT !.pending = <<>>, !.pc = "done", !.ret = Ok(lib.this)]
    /\ UNCHANGED <<pipeline_vars, frame_vars, op_call>>

\* drop(set); this.ok()
SetDrop ==
    /\ lib.f \in {"set_union", "set_difference"} /\ lib.pc = "iterating"
    /\ lib.pending = <<>>
    /\ heap' = [heap EXCEPT ![lib.this.id].exclusive = FALSE]
    /\ lib' = [lib EXCEPT !.pc = "done", !.ret = Ok(lib.this)]
    /\ UNCHANGED <<pipeline_vars, frame_vars, op_call>>

NextSets == SetBorrowMut \/ SetToIter \/ SetApply \/ SetDrop

SpecSets == InitSets /\ [][NextSets]_vars

----------------------------------------------------------------------------
(* Properties of the set operations                                         *)

set_operation == lib.f \in SetOperations

\* what `other` yields when it is iterated
yielded ==
    IF is_set(lib.other) THEN
        (IF lib.other.id = "a" THEN lib.before ELSE heap[lib.other.id].elements)
    ELSE items_of(lib.other.v)

\* C19: a set operation whose `other` is the receiver itself, or is not
\* iterable, completes with the receiver holding the result, or returns an
\* error with the receiver unborrowed and unchanged; it never aborts on a
\* conflicting borrow.
C19_AliasedSetOperation ==
    set_operation =>
        /\ lib.pc # "panic"
        /\ lib.pc = "done" =>
            /\ Unborrowed(heap.a)
            /\ IF lib.ret.ok
               THEN heap.a.elements = set_result(lib.f, lib.before, yielded)
               ELSE heap.a.elements = lib.before

\* set_union of a set with itself has stopped at the shared borrow of the
\* iteration, the receiver's mutable borrow still held
C19_Witness ==
    /\ lib.f = "set_union"
    /\ lib.this = VSet("a") /\ lib.other = VSet("a")
    /\ lib.pc = "panic"
    /\ heap.a.exclusive
    /\ heap.a.elements = lib.before

----------------------------------------------------------------------------
(* Insertions that hash their argument (core::collections): push on a set,  *)
(* insert and set_index on a dict, set_union, the default insertion of      *)
(* get_dict_index and group_by with a key function                          *)

ValueErrorRecursiveHash(v) == [t |-> "ValueErrorRecursiveHash", v |-> v]
ValueErrorIndexOutOfBounds(i, len) ==
    [t |-> "ValueErrorIndexOutOfBounds", index |-> i, len |-> len]
TypeErrorArgMustBeIndexable(v) == [t |-> "TypeErrorArgMustBeIndexable", v |-> v]

\* shared objects are named by their identity
ListPtr(id) == [t |-> "list", id |-> id]
DictPtr(id) == [t |-> "dict", id |-> id]
\* a dict built by the call and returned by value
VDict(entries) == [t |-> "dict", v |-> entries]

\* hashing v comes back to an object whose hash is in progress; objects maps
\* each list's identity to its record, visiting is the re-entrancy set
RECURSIVE reenters(_, _, _)
reenters(objects, v, visiting) ==
    /\ v.t = "list"
    /\ \/ v.id \in visiting
       \/ \E i \in DOMAIN objects[v.id].items :
            reenters(objects, objects[v.id].items[i], visiting \cup {v.id})

\* vm::guard_recursive_hash(f): Err(()) when the hash run by f re-entered
guard_recursive_hash(objects, hashed) ==
    IF reenters(objects, hashed, {}) THEN Err(<<>>) ELSE Ok(<<>>)

HashedValues == {VInt(1), ListPtr("L1"), ListPtr("L2")}

InitHash ==
    /\ NoFrames
    /\ src = NoSource /\ enable_opt = FALSE /\ ast = NoSource /\ code = <<>>
    /\ ip = 0 /\ stack = <<>> /\ globals = new_globals /\ output = <<>>
    /\ status = "hash" /\ error = NoError /\ last = NoOpcode /\ trace = <<>>
    /\ op_call = NoCall
    /\ \E items1 \in {<<>>, <<VInt(1)>>, <<ListPtr("L1")>>, <<ListPtr("L2")>>},
          items2 \in {<<>>, <<ListPtr("L1")>>},
          elements \in {{}, {VInt(1)}} :
        heap = [L1 |-> [items |-> items1], L2 |-> [items |-> items2],
                s |-> [elements |-> elements],
                d |-> [entries |-> <<>>, default |-> "Some"]]
    /\ \E v \in HashedValues :
        lib = [f |-> "none", pc |-> "call", value |-> v, target |-> VNil,
               ret |-> VNil]

completes(f, target, ret) ==
    lib' = [lib EXCEPT !.f = f, !.pc = "done", !.target = target, !.ret = ret]

\* push(value, target)
Push ==
    /\ status = "hash" /\ lib.pc = "call"
    /\ \E target \in {ListPtr("L2"), VSet("s"), VInt(1)} :
        CASE target.t = "list" ->
               /\ heap' = [heap EXCEPT ![target.id].items = Append(@, lib.value)]
               /\ completes("push", target, Ok(target))
          [] target.t = "set" ->
               /\ heap' = [heap EXCEPT !.s.elements = @ \cup {lib.value}]
               /\ completes("push", target,
                    IF guard_recursive_hash(heap, lib.value).ok
                    THEN Ok(target)
                    ELSE Err(ValueErrorRecursiveHash(target)))
          [] OTHER ->
               /\ heap' = heap
               /\ completes("push", target, Err(TypeErrorArgMustBeIterable(target)))
    /\ UNCHANGED <<pipeline_vars, frame_vars, op_call>>

\* insert(index, value, target), called with lib.value as the index
Insert ==
    /\ status = "hash" /\ lib.pc = "call"
    /\ \E target \in {ListPtr("L2"), DictPtr("d"), VInt(1)} :
        CASE target.t = "list" ->
               LET len == Len(heap[target.id].items) IN
               IF ~is_int(lib.value) THEN
                   /\ heap' = heap
                   /\ completes("insert", target, Err(TypeErrorArgMustBeInt(lib.value)))
               ELSE IF lib.value.v = len THEN
                   /\ heap' = [heap EXCEPT ![target.id].items = Append(@, VInt(1))]
                   /\ completes("insert", target, Ok(target))
               ELSE
                   /\ heap' = heap
                   /\ completes("insert", target,
                        Err(ValueErrorIndexOutOfBounds(lib.value.v, len)))
          [] target.t = "dict" ->
               /\ heap' = [heap EXCEPT !.d.entries = dict_insert(@, lib.value, VInt(1))]
               /\ completes("insert", target,
                    IF guard_recursive_hash(heap, lib.value).ok
                    THEN Ok(target)
                    ELSE Err(ValueErrorRecursiveHash(target)))
          [] OTHER ->
               /\ heap' = heap
               /\ completes("insert", target, Err(TypeErrorArgMustBeIndexable(target)))
    /\ UNCHANGED <<pipeline_vars, frame_vars, op_call>>

\* set_index(target, index, value) on a dict, lib.value as the index
SetIndex ==
    /\ status = "hash" /\ lib.pc = "call"
    /\ heap' = [heap EXCEPT !.d.entries = dict_insert(@, lib.value, VInt(1))]
    /\ completes("set_index", DictPtr("d"),
         IF guard_recursive_hash(heap, lib.value).ok
         THEN Ok(VNil)
         ELSE Err(ValueErrorRecursiveHash(DictPtr("d"))))
    /\ UNCHANGED <<pipeline_vars, frame_vars, op_call>>

\* set_union(other, this) where other is a list holding lib.value
SetUnion ==
    /\ status = "hash" /\ lib.pc = "call"
    /\ \E this \in {VSet("s"), VInt(1)} :
        IF is_set(this) THEN
            /\ heap' = [heap EXCEPT !.s.elements = @ \cup {lib.value}]
            /\ completes("set_union", this, Ok(this))
        ELSE
            /\ heap' = heap
            /\ completes("set_union", this, Err(TypeErrorArgMustBeSet(this)))
    /\ UNCHANGED <<pipeline_vars, frame_vars, op_call>>

\* get_dict_index(vm, dict, key) with lib.value as the key, on a dict with a
\* default producer that returns 1 and leaves the dict alone
GetDictIndex ==
    /\ status = "hash" /\ lib.pc = "call"
    /\ heap' = [heap EXCEPT !.d.entries = entry_or_insert(@, lib.value, VInt(1))]
    /\ completes("get_dict_index", DictPtr("d"),
         Ok(entry_or_insert(heap.d.entries, lib.value, VInt(1))[lib.value]))
    /\ UNCHANGED <<pipeline_vars, frame_vars, op_call>>

\* group_by(by, args): by is a function that maps every item to lib.value, or
\* the int 1 or 0; args is the list [1]
GroupBy ==
    /\ status = "hash" /\ lib.pc = "call"
    /\ \E by \in {"function", "1", "0"} :
        /\ completes("group_by", VNil,
             CASE by = "0" -> Err(ValueErrorValueMustBePositive(0))
               [] by = "1" -> Ok(VList(<<VList(<<VInt(1)>>)>>))
               [] OTHER ->
                    Ok(VDict(entry_or_insert(<<>>, lib.value, VList(<<VInt(1)>>)))))
    /\ heap' = heap
    /\ UNCHANGED <<pipeline_vars, frame_vars, op_call>>

NextHash == Push \/ Insert \/ SetIndex \/ SetUnion \/ GetDictIndex \/ GroupBy

SpecHash == InitHash /\ [][NextHash]_vars

----------------------------------------------------------------------------
(* Properties of the hashing insertions                                     *)

\* a call that hashed lib.value to insert it has returned
hashed_insertion ==
    /\ status = "hash" /\ lib.pc = "done"
    /\ \/ lib.f = "push" /\ is_set(lib.target)
       \/ lib.f = "insert" /\ lib.target = DictPtr("d")
       \/ lib.f = "set_index"
       \/ lib.f = "set_union" /\ is_set(lib.target)
       \/ lib.f = "get_dict_index"
       \/ lib.f = "group_by" /\ lib.ret.ok /\ lib.ret.v.t = "dict"

\* the value hashed by the call transitively contains itself
self_containing == reenters(heap, lib.value, {})

\* C20: every operation that hashes a value to insert it (push on a set,
\* insert and index assignment on a dict, set_union, the default insertion of
\* a dict, group_by with a key function) returns ValueErrorRecursiveHash when
\* the value transitively contains itself.
C20_RecursiveHashGuard ==
    (hashed_insertion /\ self_containing) =>
        /\ ~lib.ret.ok
        /\ lib.ret.e.t = "ValueErrorRecursiveHash"

\* set_union has put the list L1 = [L1] into the set and returned the set
C20_Witness ==
    /\ status = "hash" /\ lib.pc = "done" /\ lib.f = "set_union"
    /\ lib.value = ListPtr("L1")
    /\ heap.L1.items = <<ListPtr("L1")>>
    /\ ListPtr("L1") \in heap.s.elements
    /\ lib.ret = Ok(VSet("s"))

----------------------------------------------------------------------------
(* Stack traces (vm::error::RuntimeError::with_stacktrace)                  *)

\* the most call frames on the call stack of the failing machine
MaxTraceFrames == 4
\* return_ip of a call frame ranges over 0 .. MaxReturnIp
MaxReturnIp == 2

REPEAT_LIMIT == 0

NoFrame == [some |-> FALSE]
SomeFrame(call_ip, callee_ip) ==
    [some |-> TRUE, call_ip |-> call_ip, callee_ip |-> callee_ip]

\* StackFrame::Simple(call_ip, locations[call_ip], find_owning_function(prev_ip))
Simple(call_ip, callee_ip) ==
    [t |-> "Simple", call_ip |-> call_ip, callee_ip |-> callee_ip]
\* StackFrame::Repeat(n)
Repeat(n) == [t |-> "Repeat", n |-> n]

\* a variant of same_frame: frames are compared by their call site only
same_call_site(prev_frame, call_ip, prev_ip) ==
    prev_frame.some /\ prev_frame.call_ip = call_ip

\* prev_frame == Some((call_ip, prev_ip))
same_frame(prev_frame, call_ip, prev_ip) ==
    prev_frame = SomeFrame(call_ip, prev_ip)

ReturnIps ==
    UNION {[1..n -> 0..MaxReturnIp] : n \in 0..MaxTraceFrames}

InitStacktrace ==
    /\ NoFrames
    /\ src = NoSource /\ enable_opt = FALSE /\ ast = NoSource /\ code = <<>>
    /\ ip = 0 /\ stack = <<>> /\ globals = new_globals /\ output = <<>>
    /\ status = "stacktrace" /\ error = NoError /\ last = NoOpcode /\ trace = <<>>
    /\ op_call = NoCall /\ heap = <<>>
    /\ \E at \in 0..1, frames \in ReturnIps :
        lib = [f |-> "with_stacktrace", pc |-> "loop",
               at |-> at, frames |-> frames, next |-> Len(frames),
               entries |-> <<>>, prev_ip |-> at, prev_frame |-> NoFrame,
               prev_count |-> 0]

\* one round of `for frame in call_stack.iter().rev()`
StacktraceFrame ==
    /\ status = "stacktrace" /\ lib.pc = "loop" /\ lib.next > 0
    /\ LET return_ip == lib.frames[lib.next]
           call_ip == return_ip - 1
           same == same_frame(lib.prev_frame, call_ip, lib.prev_ip)
           flushed == IF ~same /\ lib.prev_count > REPEAT_LIMIT
                      THEN Append(lib.entries, Repeat(lib.prev_count - REPEAT_LIMIT))
                      ELSE lib.entries
           count == IF same THEN lib.prev_count + 1 ELSE 0
       IN
       IF return_ip > 0 THEN
           lib' = [lib EXCEPT
                     !.next = @ - 1,
                     !.entries = IF count <= REPEAT_LIMIT
                                 THEN Append(flushed, Simple(call_ip, lib.prev_ip))
                                 ELSE flushed,
                     !.prev_count = count,
                     !.prev_frame = SomeFrame(call_ip, lib.prev_ip),
                     !.prev_ip = call_ip]
       ELSE
           lib' = [lib EXCEPT !.next = @ - 1]
    /\ UNCHANGED <<pipeline_vars, frame_vars, op_call, heap>>

\* after the loop: the pending Repeat, and the DetailRuntimeError is built
StacktraceEnd ==
    /\ status = "stacktrace" /\ lib.pc = "loop" /\ lib.next = 0
    /\ lib' = [lib EXCEPT
                 !.pc = "done",
                 !.entries = IF lib.prev_count > REPEAT_LIMIT
                             THEN Append(@, Repeat(lib.prev_count - REPEAT_LIMIT))
                             ELSE @]
    /\ UNCHANGED <<pipeline_vars, frame_vars, op_call, heap>>

NextStacktrace == StacktraceFrame \/ StacktraceEnd

SpecStacktrace == InitStacktrace /\ [][NextStacktrace]_vars

----------------------------------------------------------------------------
(* Properties of the stack trace                                            *)

\* the call_ip of the call frames with return_ip > 0, innermost first
RECURSIVE walked(_, _)
walked(frames, n) ==
    IF n = 0 THEN <<>>
    ELSE IF frames[n] > 0 THEN <<frames[n] - 1>> \o walked(frames, n - 1)
    ELSE walked(frames, n - 1)

\* the (call site, callee site) pair of the k-th walked frame
site_pair(ips, at, k) == <<ips[k], IF k = 1 THEN at ELSE ips[k - 1]>>

\* the length of the maximal run of equal pairs that starts at k
RECURSIVE run_length(_, _, _)
run_length(ips, at, k) ==
    IF k < Len(ips) /\ site_pair(ips, at, k + 1) = site_pair(ips, at, k)
    THEN 1 + run_length(ips, at, k + 1)
    ELSE 1

\* one Simple per maximal run, and one Repeat for its further repetitions
RECURSIVE collapsed(_, _, _)
collapsed(ips, at, k) ==
    IF k > Len(ips) THEN <<>>
    ELSE LET n == run_length(ips, at, k)
             pair == site_pair(ips, at, k) IN
         <<Simple(pair[1], pair[2])>>
         \o (IF n > 1 THEN <<Repeat(n - 1)>> ELSE <<>>)
         \o collapsed(ips, at, k + n)

RECURSIVE frames_counted(_, _)
frames_counted(entries, n) ==
    IF n = 0 THEN 0
    ELSE (IF entries[n].t = "Simple" THEN 1 ELSE entries[n].n)
         + frames_counted(entries, n - 1)

stacktrace_built == status = "stacktrace" /\ lib.pc = "done"

----------------------------------------------------------------------------
(* End-of-input classification of parser errors (ParserError::is_eof)       *)

ScanTokens == {"Identifier", "CloseParen", "NewLine"}

\* Option<ScanToken>
NoToken == [some |-> FALSE]
SomeToken(token) == [some |-> TRUE, token |-> token]
is_none(it) == ~it.some

\* enum ParserErrorType: the variants that carry Option<ScanToken>
ExpectedVariants ==
    {"ExpectedToken", "ExpectedExpressionTerminal", "ExpectedCommaOrEndOfArguments",
     "ExpectedCommaOrEndOfList", "ExpectedCommaOrEndOfVector",
     "ExpectedCommaOrEndOfDict", "ExpectedCommaOrEndOfSet",
     "ExpectedColonOrEndOfSlice", "ExpectedStatement",
     "ExpectedVariableNameAfterLet", "ExpectedVariableNameAfterFor",
     "ExpectedFunctionNameAfterFn", "ExpectedFunctionBlockOrArrowAfterFn",
     "ExpectedParameterOrEndOfList", "ExpectedCommaOrEndOfParameters",
     "ExpectedPatternTerm",
     "ExpectedUnderscoreOrVariableNameAfterVariadicInPattern",
     "ExpectedUnderscoreOrVariableNameOrPattern",
     "ExpectedAnnotationOrNamedFunction", "ExpectedStructNameAfterStruct",
     "ExpectedFieldNameAfterArrow"}

\* the variants that carry a String
NamedVariants ==
    {"LocalVariableConflict", "LocalVariableConflictWithNativeFunction",
     "UndeclaredIdentifier", "DuplicateFieldName", "InvalidFieldName",
     "InvalidLValue"}

\* the variants without a payload
UnitVariants ==
    {"InvalidAssignmentTarget", "MultipleVariadicTermsInPattern",
     "LetWithPatternBindingNoExpression", "BreakOutsideOfLoop",
     "ContinueOutsideOfLoop", "StructNotInGlobalScope",
     "NonDefaultParameterAfterDefaultParameter", "ParameterAfterVarParameter",
     "UnrollNotAllowedInSlice"}

\* every value of ParserErrorType; `it` is the actual token of the variants
\* that have one, NoToken otherwise
ParserErrorTypes ==
    {[t |-> "UnexpectedTokenAfterEoF", it |-> SomeToken(token)] : token \in ScanTokens}
    \cup {[t |-> t, it |-> it] :
            t \in ExpectedVariants,
            it \in {NoToken} \cup {SomeToken(token) : token \in ScanTokens}}
    \cup {[t |-> t, it |-> NoToken] :
            t \in NamedVariants \cup UnitVariants \cup {"Runtime"}}

\* a variant of is_eof: every Expected* error counts as end of input
is_eof_expected(e) ==
    CASE e.t = "UnexpectedTokenAfterEoF" -> FALSE
      [] e.t = "ExpectedToken" -> TRUE
      [] e.t \in ExpectedVariants -> TRUE
      [] OTHER -> FALSE

\* ParserError::is_eof, arm by arm
is_eof(e) ==
    CASE e.t = "UnexpectedTokenAfterEoF" -> FALSE
      [] e.t = "ExpectedToken" -> is_none(e.it)
      [] e.t \in {"ExpectedExpressionTerminal", "ExpectedCommaOrEndOfArguments",
                  "ExpectedCommaOrEndOfList", "ExpectedCommaOrEndOfVector",
                  "ExpectedCommaOrEndOfDict", "ExpectedCommaOrEndOfSet",
                  "ExpectedColonOrEndOfSlice", "ExpectedStatement",
                  "ExpectedVariableNameAfterLet", "ExpectedVariableNameAfterFor",
                  "ExpectedFunctionNameAfterFn",
                  "ExpectedFunctionBlockOrArrowAfterFn",
                  "ExpectedParameterOrEndOfList", "ExpectedCommaOrEndOfParameters",
                  "ExpectedPatternTerm",
                  "ExpectedUnderscoreOrVariableNameAfterVariadicInPattern",
                  "ExpectedUnderscoreOrVariableNameOrPattern",
                  "ExpectedAnnotationOrNamedFunction",
                  "ExpectedStructNameAfterStruct",
                  "ExpectedFieldNameAfterArrow"} -> is_none(e.it)
      [] e.t \in {"LocalVariableConflict", "LocalVariableConflictWithNativeFunction",
                  "UndeclaredIdentifier", "DuplicateFieldName", "InvalidFieldName",
                  "InvalidLValue"} -> FALSE
      [] e.t \in {"InvalidAssignmentTarget", "MultipleVariadicTermsInPattern",
                  "LetWithPatternBindingNoExpression", "BreakOutsideOfLoop",
                  "ContinueOutsideOfLoop", "StructNotInGlobalScope",
                  "NonDefaultParameterAfterDefaultParameter",
                  "ParameterAfterVarParameter", "UnrollNotAllowedInSlice"} -> FALSE
      [] e.t = "Runtime" -> FALSE

InitParserError ==
    /\ NoFrames
    /\ src = NoSource /\ enable_opt = FALSE /\ ast = NoSource /\ code = <<>>
    /\ ip = 0 /\ stack = <<>> /\ globals = new_globals /\ output = <<>>
    /\ status = "parser error" /\ error = NoError /\ last = NoOpcode /\ trace = <<>>
    /\ heap = <<>> /\ lib = NoCall
    /\ \E e \in ParserErrorTypes : op_call = [f |-> "compile", error |-> e]

\* is_eof is called on the error the compile returned
IsEof ==
    /\ status = "parser error" /\ op_call.f = "compile"
    /\ op_call' = [f |-> "is_eof", error |-> op_call.error,
                   ret |-> is_eof(op_call.error)]
    /\ UNCHANGED <<pipeline_vars, frame_vars, heap, lib>>

\* the read-eval-print loop: a continuation prompt when the error is an end
\* of input, the error is reported otherwise
ReplPrompt ==
    /\ status = "parser error" /\ op_call.f = "is_eof"
    /\ op_call' = [f |-> "repl", error |-> op_call.error, ret |-> op_call.ret,
                   prompt |-> IF op_call.ret THEN "continuation" ELSE "compile failed"]
    /\ UNCHANGED <<pipeline_vars, frame_vars, heap, lib>>

NextParserError == IsEof \/ ReplPrompt

SpecParserError == InitParserError /\ [][NextParserError]_vars

----------------------------------------------------------------------------
(* Properties of is_eof                                                     *)

\* the error is an Expected* variant and the input ended where the token was
\* expected
expected_at_end(e) == e.t \in ExpectedVariants /\ ~e.it.some

\* C22: is_eof is true exactly for the Expected* variants whose actual token
\* is absent, and false for UnexpectedTokenAfterEoF, for an Expected* error
\* with an actual token and for every semantic or runtime variant; the REPL
\* prompts for a continuation line only in the first case.
C22_IsEof ==
    /\ (status = "parser error" /\ op_call.f \in {"is_eof", "repl"}) =>
            (op_call.ret <=> expected_at_end(op_call.error))
    /\ (status = "parser error" /\ op_call.f = "repl") =>
            (op_call.prompt = "continuation" <=> expected_at_end(op_call.error))

\* the REPL asks for a continuation line after an ExpectedToken error at the
\* end of the input
C22_Witness ==
    /\ status = "parser error" /\ op_call.f = "repl"
    /\ op_call.error = [t |-> "ExpectedToken", it |-> NoToken]
    /\ op_call.ret /\ op_call.prompt = "continuation"

----------------------------------------------------------------------------
(* The command line (cordy/src/main.rs)                                     *)

\* the most arguments after the program name
MaxArgs == 3

CliArguments == {"-h", "-d", "-o", "--no-line-numbers", "main.cor"}

\* std::env::args(): the program name and up to MaxArgs arguments, or nothing
CommandLines ==
    {<<>>} \cup
    UNION {{<<"cordy">> \o rest : rest \in [1..n -> CliArguments]} : n \in 0..MaxArgs}

NoFile == [some |-> FALSE]
SomeFile(name) == [some |-> TRUE, name |-> name]

new_options ==
    [file |-> NoFile, args |-> <<>>, mode |-> "Default", optimize |-> FALSE,
     no_line_numbers |-> FALSE]

\* Mode::set
mode_set(mode, new) ==
    IF mode # "Default"
    THEN Err("Must only specify one of --disassembly")
    ELSE Ok(new)

\* parse_args after the program name: the loop over the arguments, then
\* options.args.extend(iter); [some |-> FALSE] is None
RECURSIVE parse_args(_, _, _)
parse_args(args, i, options) ==
    IF i > Len(args) THEN [some |-> TRUE, options |-> options, why |-> "parsed"]
    ELSE CASE args[i] \in {"-h", "--help"} -> [some |-> FALSE, why |-> "help"]
           [] args[i] \in {"-d", "--disassembly"} ->
                LET set == mode_set(options.mode, "Disassembly") IN
                IF set.ok
                THEN parse_args(args, i + 1, [options EXCEPT !.mode = set.v])
                ELSE [some |-> FALSE, why |-> "flags"]
           [] args[i] \in {"-o", "--optimize"} ->
                parse_args(args, i + 1, [options EXCEPT !.optimize = TRUE])
           [] args[i] = "--no-line-numbers" ->
                parse_args(args, i + 1, [options EXCEPT !.no_line_numbers = TRUE])
           [] OTHER ->
                [some |-> TRUE, why |-> "parsed",
                 options |-> [options EXCEPT
                                !.file = SomeFile(args[i]),
                                !.args = SubSeq(args, i + 1, Len(args))]]

\* the process has written nothing and has not exited; readable, compiles and
\* runs say what the file system, the compiler and the machine will answer
InitCli ==
    /\ NoFrames
    /\ src = NoSource /\ enable_opt = FALSE /\ ast = NoSource /\ code = <<>>
    /\ ip = 0 /\ stack = <<>> /\ globals = new_globals /\ output = <<>>
    /\ status = "cli" /\ error = NoError /\ last = NoOpcode /\ trace = <<>>
    /\ op_call = NoCall /\ heap = <<>>
    /\ \E argv \in CommandLines, readable \in BOOLEAN, compiles \in BOOLEAN,
          runs \in BOOLEAN :
        lib = [f |-> "main", pc |-> "parse_args", argv |-> argv,
               readable |-> readable, compiles |-> compiles, runs |-> runs,
               options |-> new_options, result |-> Ok(<<>>), failed |-> "none",
               stdout |-> <<>>, stderr |-> <<>>, exit_code |-> -1]

\* main: parse_args(args); None ends main
ParseArgs ==
    /\ status = "cli" /\ lib.pc = "parse_args"
    /\ IF lib.argv = <<>> THEN
           lib' = [lib EXCEPT !.pc = "exit", !.exit_code = 101,
                     !.failed = "panic",
                     !.stderr = Append(@, "Unexpected first argument")]
       ELSE LET parsed == parse_args(Tail(lib.argv), 1, new_options) IN
            IF parsed.some THEN
                lib' = [lib EXCEPT !.pc = "run", !.options = parsed.options]
            ELSE
                lib' = [lib EXCEPT !.pc = "exit", !.exit_code = 0,
                          !.failed = IF parsed.why = "flags" THEN "flags" ELSE "none",
                          !.stdout = IF parsed.why = "help"
                                     THEN Append(@, "help") ELSE @]
    /\ UNCHANGED <<pipeline_vars, frame_vars, op_call, heap>>

\* run_main(name, options), with run_vm
RunMain ==
    /\ status = "cli" /\ lib.pc = "run" /\ lib.options.file.some
    /\ lib' =
         IF ~lib.readable THEN
             [lib EXCEPT !.pc = "result", !.failed = "read",
                !.result = Err("Unable to read file")]
         ELSE IF ~lib.compiles THEN
             [lib EXCEPT !.pc = "result", !.failed = "compile",
                !.result = Err("compile errors")]
         ELSE IF lib.options.mode = "Disassembly" THEN
             [lib EXCEPT !.pc = "result", !.result = Ok(<<>>),
                !.stdout = Append(@, "disassembly")]
         ELSE IF ~lib.runs THEN
             [lib EXCEPT !.pc = "result", !.failed = "run",
                !.result = Err("runtime error")]
         ELSE
             [lib EXCEPT !.pc = "result", !.result = Ok(<<>>)]
    /\ UNCHANGED <<pipeline_vars, frame_vars, op_call, heap>>

\* run_repl(): the loop ends with Ok, or with the error of the reader
RunRepl ==
    /\ status = "cli" /\ lib.pc = "run" /\ ~lib.options.file.some
    /\ \E ok \in BOOLEAN :
        lib' = [lib EXCEPT !.pc = "result",
                  !.stdout = Append(@, "Welcome to Cordy!"),
                  !.failed = IF ok THEN "none" ELSE "repl",
                  !.result = IF ok THEN Ok(<<>>) ELSE Err("Error: reader")]
    /\ UNCHANGED <<pipeline_vars, frame_vars, op_call, heap>>

\* main: match result, and main returns
MainReturn ==
    /\ status = "cli" /\ lib.pc = "result"
    /\ lib' = [lib EXCEPT !.pc = "exit", !.exit_code = 0,
                 !.stderr = IF lib.result.ok THEN @ ELSE Append(@, lib.result.e)]
    /\ UNCHANGED <<pipeline_vars, frame_vars, op_call, heap>>

NextCli == ParseArgs \/ RunMain \/ RunRepl \/ MainReturn

SpecCli == InitCli /\ [][NextCli]_vars

----------------------------------------------------------------------------
(* Properties of the command line                                           *)

exited == status = "cli" /\ lib.pc = "exit"

\* C23: the exit code is 0 only on success; after a failure to read, compile
\* or run, or after conflicting mode flags, an error is on stderr and the
\* exit code is not 0.
C23_ExitCodes ==
    exited =>
        /\ lib.exit_code = 0 => lib.failed = "none"
        /\ lib.failed \in {"read", "compile", "run", "flags"} =>
              lib.stderr # <<>> /\ lib.exit_code # 0

\* the file could not be read: the message is on stderr and the exit code is 0
C23_Witness ==
    /\ exited
    /\ lib.failed = "read"
    /\ lib.stderr = <<"Unable to read file">>
    /\ lib.exit_code = 0

----------------------------------------------------------------------------
(* String formatting (core::strings::StringFormatter)                       *)

\* the most characters in the format literal
MaxLiteral == 4
\* the most arguments passed with it
MaxFormatArgs == 2
\* usize is modelled with UsizeBits bits
UsizeBits == 3
usize_MAX == 2^UsizeBits - 1

ValueErrorInvalidFormatCharacter(c) ==
    [t |-> "ValueErrorInvalidFormatCharacter", c |-> c]
ValueErrorMissingRequiredArgumentInStringFormatting ==
    [t |-> "ValueErrorMissingRequiredArgumentInStringFormatting"]
ValueErrorNotAllArgumentsUsedInStringFormatting(v) ==
    [t |-> "ValueErrorNotAllArgumentsUsedInStringFormatting", v |-> v]

\* Option<char>
NoChar == [some |-> FALSE]
SomeChar(c) == [some |-> TRUE, c |-> c]
peek_char(chars) == IF chars = <<>> THEN NoChar ELSE SomeChar(Head(chars))

digit_of(c) == CHOOSE d \in 0..9 : Digits[d + 1] = c

\* buffer.parse::<usize>(): Err when the number does not fit in usize
RECURSIVE parse_usize(_, _)
parse_usize(buffer, n) ==
    IF buffer = <<>> THEN Ok(n)
    ELSE LET m == n * 10 + digit_of(Head(buffer)) IN
         IF m > usize_MAX THEN Err("PosOverflow") ELSE parse_usize(Tail(buffer), m)

\* the inner loop of run: the digits of the width are moved to the buffer
RECURSIVE width_digits(_, _)
width_digits(chars, buffer) ==
    IF chars # <<>> /\ Head(chars) \in {"1", "2", "3", "4", "5", "6", "7", "8", "9"}
    THEN width_digits(Tail(chars), Append(buffer, Head(chars)))
    ELSE IF chars # <<>> /\ Head(chars) = "0"
    THEN (IF buffer = <<>>
          THEN [ok |-> FALSE]
          ELSE width_digits(Tail(chars), Append(buffer, "0")))
    ELSE [ok |-> TRUE, buffer |-> buffer, chars |-> chars]

\* format!("{:width$}", ..): the text of one specifier
formatted(kind, v, zero, width) ==
    [kind |-> kind, v |-> v, zero |-> zero, width |-> width]
\* one character of the literal in the output
literal_char(c) == formatted("char", c, FALSE, 0)

\* StringFormatter::run: chars is what is left of the literal, args what is
\* left of the arguments, out the output so far
RECURSIVE formatter_run(_, _, _)
formatter_run(chars, args, out) ==
    IF chars = <<>> THEN
        (IF args # <<>>
         THEN Err(ValueErrorNotAllArgumentsUsedInStringFormatting(Head(args)))
         ELSE Ok(out))
    ELSE IF Head(chars) # "%" THEN
        formatter_run(Tail(chars), args, Append(out, literal_char(Head(chars))))
    ELSE IF peek_char(Tail(chars)) = SomeChar("%") THEN
        formatter_run(Tail(Tail(chars)), args, Append(out, literal_char("%")))
    ELSE
        LET is_zero_padded == peek_char(Tail(chars)) = SomeChar("0")
            after_flag == IF is_zero_padded THEN Tail(Tail(chars)) ELSE Tail(chars)
            digits == width_digits(after_flag, <<>>)
        IN
        IF ~digits.ok THEN Err(ValueErrorInvalidFormatCharacter(SomeChar("0")))
        ELSE
        LET padding == IF digits.buffer = <<>> THEN Ok(0)
                       ELSE parse_usize(digits.buffer, 0)
            c == peek_char(digits.chars)
        IN
        IF ~padding.ok THEN Panic
        ELSE IF c.some /\ c.c \in {"d", "x", "b"} THEN
            (IF args = <<>>
             THEN Err(ValueErrorMissingRequiredArgumentInStringFormatting)
             ELSE IF ~is_int(Head(args)) THEN Err(TypeErrorArgMustBeInt(Head(args)))
             ELSE formatter_run(Tail(digits.chars), Tail(args),
                    Append(out, formatted(c.c, Head(args), is_zero_padded, padding.v))))
        ELSE IF c = SomeChar("s") THEN
            (IF args = <<>>
             THEN Err(ValueErrorMissingRequiredArgumentInStringFormatting)
             ELSE formatter_run(Tail(digits.chars), Tail(args),
                    Append(out, formatted("s", Head(args), ~is_zero_padded, padding.v))))
        ELSE Err(ValueErrorInvalidFormatCharacter(c))

LiteralChars == {"%", "d", "s", "0", "1", "z"}
FormatLiterals == UNION {[1..n -> LiteralChars] : n \in 0..MaxLiteral}
FormatArgs == UNION {[1..n -> {VInt(1), VStr("a")}] : n \in 0..MaxFormatArgs}

InitFormat ==
    /\ NoFrames
    /\ src = NoSource /\ enable_opt = FALSE /\ ast = NoSource /\ code = <<>>
    /\ ip = 0 /\ stack = <<>> /\ globals = new_globals /\ output = <<>>
    /\ status = "format" /\ error = NoError /\ last = NoOpcode /\ trace = <<>>
    /\ heap = <<>> /\ lib = NoCall
    /\ \E literal \in FormatLiterals, args \in FormatArgs :
        op_call = [f |-> "args", literal |-> literal, args |-> args]

\* format_string(literal, args)
FormatString ==
    /\ status = "format" /\ op_call.f = "args"
    /\ op_call' = [f |-> "format_string", literal |-> op_call.literal,
                   args |-> op_call.args,
                   ret |-> formatter_run(op_call.literal, op_call.args, <<>>)]
    /\ UNCHANGED <<pipeline_vars, frame_vars, heap, lib>>

NextFormat == FormatString

SpecFormat == InitFormat /\ [][NextFormat]_vars

----------------------------------------------------------------------------
(* Properties of string formatting                                          *)

format_called == status = "format" /\ op_call.f = "format_string"

\* the arguments of the formatted pieces of an output, in order
RECURSIVE consumed(_)
consumed(out) ==
    IF out = <<>> THEN <<>>
    ELSE (IF Head(out).kind = "char" THEN <<>> ELSE <<Head(out).v>>)
         \o consumed(Tail(out))

RECURSIVE count_of(_, _)
count_of(chars, c) ==
    IF chars = <<>> THEN 0
    ELSE (IF Head(chars) = c THEN 1 ELSE 0) + count_of(Tail(chars), c)

\* `%`, an optional zero flag, an optional width, then a character that is
\* no specifier, or the end of the literal
Widths == {<<>>, <<"1">>, <<"1", "0">>, <<"1", "1">>}
unknown_specifier(literal) ==
    \E flag \in {<<>>, <<"0">>}, width \in Widths, tail \in {<<>>, <<"z">>} :
        literal = <<"%">> \o flag \o width \o tail

\* C24: format_string consumes one argument, left to right, for each
\* specifier and none for `%%`; a specifier without an argument gives
\* ValueErrorMissingRequiredArgumentInStringFormatting, arguments left over
\* give ValueErrorNotAllArgumentsUsedInStringFormatting, and `%` (after flag
\* and width) before any other character or the end of the literal gives
\* ValueErrorInvalidFormatCharacter; an error returns no formatted string.
C24_FormatArguments ==
    format_called =>
        LET ret == op_call.ret
            literal == op_call.literal IN
        /\ ret.ok \/ "e" \in DOMAIN ret
        /\ ret.ok => consumed(ret.v) = op_call.args
        /\ (ret.ok /\ count_of(literal, "%") = 0) =>
              ret.v = [i \in DOMAIN literal |-> literal_char(literal[i])]
        /\ (~ret.ok /\ "e" \in DOMAIN ret
                /\ ret.e.t = "ValueErrorMissingRequiredArgumentInStringFormatting") =>
              Len(op_call.args) < count_of(literal, "d") + count_of(literal, "s")
        /\ (~ret.ok /\ "e" \in DOMAIN ret
                /\ ret.e.t = "ValueErrorNotAllArgumentsUsedInStringFormatting") =>
              Len(op_call.args) > 0
        /\ literal = <<"%", "%">> =>
              ret = IF op_call.args = <<>> THEN Ok(<<literal_char("%")>>)
                    ELSE Err(ValueErrorNotAllArgumentsUsedInStringFormatting(
                                op_call.args[1]))
        /\ unknown_specifier(literal) =>
              /\ ~ret.ok /\ "e" \in DOMAIN ret
              /\ ret.e.t = "ValueErrorInvalidFormatCharacter"

\* `%11z`: the width does not fit in usize and the unwrap of its parse panics
C24_Witness ==
    /\ format_called
    /\ op_call.literal = <<"%", "1", "1", "z">>
    /\ op_call.ret = Panic

----------------------------------------------------------------------------
(* The parser (compiler/parser.rs): the token stream is read through a      *)
(* Peekable, the rules are the frames of the recursive descent              *)

\* the most tokens in the token stream
MaxTokens == 4

ParserTokens ==
    {"KeywordFn", "KeywordLet", "KeywordIf", "KeywordElif", "KeywordElse",
     "KeywordLoop", "KeywordFor", "KeywordIn", "Identifier", "Int", "Equals",
     "PlusEquals", "Minus", "OpenParen", "CloseParen", "Comma", "OpenBrace",
     "CloseBrace", "NewLine"}

\* the assignment operators of parse_assignment, one of them in the stream
AssignmentOperators == {"PlusEquals"}
\* the prefix operators of parse_expr_2_unary, one of them in the stream
PrefixOperators == {"Minus"}
\* the operators of parse_expr_3 .. parse_expr_9, one of them in the stream
InfixOperators == {"Minus"}
\* the tokens parse_expr_1_terminal takes as a terminal
Terminals == {"Int", "Identifier"}

\* one frame of the descent: the rule, where it continues, the token an
\* expect waits for, and for the statement loop the position and error flag
\* it saw when it last started a statement (history)
NoMark == [set |-> FALSE]
Mark(p, rule) == [set |-> TRUE, position |-> p.position, error |-> p.error, rule |-> rule]
Rule(pc) == [pc |-> pc, token |-> "None", mark |-> NoMark]
RuleFor(pc, token) == [pc |-> pc, token |-> token, mark |-> NoMark]

\* the current frame continues as the given frames; none of them: it returns
goto(p, frames) == [p EXCEPT !.rules = frames \o Tail(@)]

\* self.input.next(): the peeked token is taken, the next one is not yet read
input_next(p) ==
    [p EXCEPT !.next = "?",
              !.position = @ + 1,
              !.taken = IF p.next = "NewLine" THEN @ ELSE @ + 1]

\* one round of the loop of skip_new_line
skip_new_line(p) == [input_next(p) EXCEPT !.lineno = @ + 1]

\* self.input.peek()
input_peek(p) == IF p.next = "EoF" THEN NoToken ELSE SomeToken(p.next)

\* a variant of parser_peek: the error flag is not consulted
parser_peek_always(p) == input_peek(p)

\* Parser::peek, after its skip_new_line
parser_peek(p) == IF p.error THEN NoToken ELSE input_peek(p)

\* the rule looked at the stream with peek(): the answer is kept (history)
peeked(p) == [p EXCEPT !.saw = parser_peek(p)]

\* Parser::advance after a peek that returned a token
advance(p) == IF p.error THEN p ELSE input_next(p)

\* Parser::push_err
push_err(p, e) ==
    [p EXCEPT !.errors = IF p.error THEN @ ELSE Append(@, e),
              !.error = TRUE]

\* the peek of the rule is a token of the set
sees(p, tokens) == parser_peek(p).some /\ parser_peek(p).token \in tokens

\* Parser::accept: next is the frame after a match, otherwise the frame
\* after a mismatch
parser_accept(p, token, matched, otherwise) ==
    IF sees(p, {token}) THEN goto(advance(peeked(p)), matched)
    ELSE goto(peeked(p), otherwise)

\* parse_statements: one round of its loop
parse_statements(p) ==
    LET q == peeked(p)
        rule == CASE sees(p, {"KeywordFn"}) -> "parse_function"
                  [] sees(p, {"KeywordLet"}) -> "parse_let"
                  [] sees(p, {"KeywordIf"}) -> "parse_if"
                  [] sees(p, {"KeywordLoop"}) -> "parse_loop"
                  [] sees(p, {"KeywordFor"}) -> "parse_for"
                  [] sees(p, {"Identifier"}) -> "parse_assignment"
                  [] sees(p, {"OpenBrace"}) -> "parse_block_statement"
                  [] OTHER -> "break"
        loop == [Rule("parse_statements") EXCEPT !.mark = Mark(p, rule)]
    IN
    IF rule = "break" THEN goto(q, <<>>) ELSE goto(q, <<Rule(rule), loop>>)

\* the statement rule of the last round has returned to the loop with the
\* input position and the error flag it started with
no_progress(p) ==
    LET mark == Head(p.rules).mark IN
    mark.set /\ mark.position = p.position /\ mark.error = p.error

\* parse_block_statement: expect(OpenBrace), then the statements and the
\* resynchronization
parse_block_statement(p) ==
    goto(p, <<RuleFor("expect", "OpenBrace"), Rule("parse_statements"),
              RuleFor("expect_resync", "CloseBrace")>>)

\* parse_function
parse_function(p) ==
    parser_accept(p, "OpenParen", <<Rule("parse_block_statement")>>,
                  <<Rule("parse_block_statement")>>)

\* parse_pattern does nothing
parse_pattern(p) == p

\* parse_let
parse_let(p) ==
    parser_accept(parse_pattern(p), "Equals", <<Rule("parse_expression")>>, <<>>)

\* parse_if: "parse_if" is its start, "elif" the head of its while loop,
\* "else" the statement after the loop
parse_if(p) ==
    CASE Head(p.rules).pc = "parse_if" ->
            goto(p, <<Rule("parse_expression"), Rule("parse_block_statement"),
                      Rule("parse_if:elif")>>)
      [] Head(p.rules).pc = "parse_if:elif" ->
            parser_accept(p, "KeywordElif",
                <<Rule("parse_block_statement"), Rule("parse_if:elif")>>,
                <<Rule("parse_if:else")>>)
      [] Head(p.rules).pc = "parse_if:else" ->
            parser_accept(p, "KeywordElse", <<Rule("parse_block_statement")>>, <<>>)

\* parse_loop
parse_loop(p) == goto(p, <<Rule("parse_block_statement")>>)

\* parse_for
parse_for(p) ==
    goto(parse_pattern(p),
         <<RuleFor("expect", "KeywordIn"), Rule("parse_expression"),
           Rule("parse_block_statement")>>)

\* parse_assignment: "parse_assignment" takes the identifier, ":operator" is
\* the rest
parse_assignment(p) ==
    CASE Head(p.rules).pc = "parse_assignment" ->
            goto(advance(p), <<Rule("parse_assignment:operator")>>)
      [] Head(p.rules).pc = "parse_assignment:operator" ->
            IF sees(p, {"Equals"} \cup AssignmentOperators)
            THEN goto(advance(peeked(p)), <<Rule("parse_expression")>>)
            ELSE goto(peeked(p), <<>>)

\* parse_expression, and parse_expr_9 down to parse_expr_3: every one of the
\* seven loops takes its operators and parses the next operand, so together
\* they take any of the operators after an operand; the order of the output
\* is not modelled. "parse_expression" parses the first operand, ":operator"
\* is the head of the loops
parse_expression(p) ==
    CASE Head(p.rules).pc = "parse_expression" ->
            goto(p, <<Rule("parse_expr_2_unary"), Rule("parse_expression:operator")>>)
      [] Head(p.rules).pc = "parse_expression:operator" ->
            IF sees(p, InfixOperators)
            THEN goto(advance(peeked(p)),
                      <<Rule("parse_expr_2_unary"), Rule("parse_expression:operator")>>)
            ELSE goto(peeked(p), <<>>)

\* parse_expr_1_terminal
parse_expr_1_terminal(p) ==
    LET q == peeked(p) IN
    CASE sees(p, Terminals) -> goto(advance(q), <<>>)
      [] sees(p, {"OpenParen"}) ->
            goto(advance(q), <<Rule("parse_expression"), RuleFor("expect", "CloseParen")>>)
      [] parser_peek(p).some /\ ~sees(p, Terminals \cup {"OpenParen"}) ->
            goto(push_err(q, "ExpectedExpressionTerminal"), <<>>)
      [] OTHER -> goto(push_err(q, "UnexpectedEoF"), <<>>)

\* parse_expr_2_unary: "parse_expr_2_unary" is the loop of the prefix
\* operators, ":suffix" the loop of the suffix operators, ":arguments" to
\* ":end" the argument list of a call
parse_expr_2_unary(p) ==
    LET q == peeked(p) IN
    CASE Head(p.rules).pc = "parse_expr_2_unary" ->
            IF sees(p, PrefixOperators)
            THEN goto(advance(q), <<Rule("parse_expr_2_unary")>>)
            ELSE goto(q, <<Rule("parse_expr_1_terminal"), Rule("parse_expr_2_unary:suffix")>>)
      [] Head(p.rules).pc = "parse_expr_2_unary:suffix" ->
            IF sees(p, {"OpenParen"})
            THEN goto(advance(q), <<Rule("parse_expr_2_unary:arguments")>>)
            ELSE goto(q, <<>>)
      [] Head(p.rules).pc = "parse_expr_2_unary:arguments" ->
            IF sees(p, {"CloseParen"})
            THEN goto(advance(q), <<Rule("parse_expr_2_unary:suffix")>>)
            ELSE IF parser_peek(p).some
            THEN goto(q, <<Rule("parse_expression"), Rule("parse_expr_2_unary:comma")>>)
            ELSE goto(push_err(q, "UnexpectedEoF"), <<Rule("parse_expr_2_unary:suffix")>>)
      [] Head(p.rules).pc = "parse_expr_2_unary:comma" ->
            IF sees(p, {"Comma"})
            THEN goto(advance(q), <<Rule("parse_expression"), Rule("parse_expr_2_unary:comma")>>)
            ELSE goto(q, <<Rule("parse_expr_2_unary:end")>>)
      [] Head(p.rules).pc = "parse_expr_2_unary:end" ->
            IF sees(p, {"CloseParen"})
            THEN goto(advance(q), <<Rule("parse_expr_2_unary:suffix")>>)
            ELSE IF parser_peek(p).some
            THEN goto(push_err(q, "ExpectedCommaOrEndOfArguments"),
                      <<Rule("parse_expr_2_unary:suffix")>>)
            ELSE goto(push_err(q, "UnexpectedEoF"), <<Rule("parse_expr_2_unary:suffix")>>)

\* Parser::expect(token), after its skip_new_line
expect(p) ==
    LET token == Head(p.rules).token
        q == peeked(p) IN
    IF sees(p, {token}) THEN goto(input_next(q), <<>>)
    ELSE IF parser_peek(p).some THEN goto(push_err(q, "Expecting"), <<>>)
    ELSE goto(push_err(q, "UnexpectedEoFExpecting"), <<>>)

\* Parser::expect_resync(token), after its skip_new_line: "expect_resync" is
\* the first test of the next token, ":loop" one round of the loop
expect_resync(p) ==
    LET token == Head(p.rules).token IN
    CASE Head(p.rules).pc = "expect_resync" ->
            IF sees(p, {token}) THEN goto(advance(peeked(p)), <<>>)
            ELSE goto(peeked(p), <<RuleFor("expect_resync:loop", token)>>)
      [] Head(p.rules).pc = "expect_resync:loop" ->
            IF input_peek(p) = SomeToken(token)
            THEN goto([input_next(p) EXCEPT !.error = FALSE], <<>>)
            ELSE IF input_peek(p).some THEN input_next(p)
            ELSE goto(p, <<>>)

new_parser ==
    [f |-> "parse", rules |-> <<Rule("parse_statements")>>,
     next |-> "?", remaining |-> MaxTokens,
     errors |-> <<>>, error |-> FALSE, lineno |-> 0,
     position |-> 0, taken |-> 0, saw |-> NoToken]

InitParser ==
    /\ NoFrames
    /\ src = NoSource /\ enable_opt = FALSE /\ ast = NoSource /\ code = <<>>
    /\ ip = 0 /\ stack = <<>> /\ globals = new_globals /\ output = <<>>
    /\ status = "parser" /\ error = NoError /\ last = NoOpcode /\ trace = <<>>
    /\ op_call = NoCall /\ heap = <<>>
    /\ lib = new_parser

\* the rules that look at the stream with peek() before anything else
PeekingRules ==
    {"parse_statements", "parse_function", "parse_let", "parse_if:elif",
     "parse_if:else", "parse_assignment:operator", "parse_expression:operator",
     "parse_expr_1_terminal", "parse_expr_2_unary", "parse_expr_2_unary:suffix",
     "parse_expr_2_unary:arguments", "parse_expr_2_unary:comma",
     "parse_expr_2_unary:end"}
\* the rules that start with skip_new_line whatever the error flag is
SkippingRules == {"expect", "expect_resync", "expect_resync:loop"}

\* the current frame is about to take a NewLine in skip_new_line
at_new_line(p) ==
    /\ p.next = "NewLine"
    /\ \/ Head(p.rules).pc \in SkippingRules
       \/ ~p.error /\ Head(p.rules).pc \in PeekingRules

\* the parser is in one of the rules and the Peekable has looked ahead
in_rule(pcs) ==
    /\ status = "parser" /\ lib.rules # <<>>
    /\ Head(lib.rules).pc \in pcs
    /\ lib.next # "?"

\* a rule runs up to its next token or its next call; it has not peeked yet
ran(p) ==
    /\ lib' = IF at_new_line(lib) THEN skip_new_line(lib) ELSE p
    /\ UNCHANGED <<pipeline_vars, frame_vars, op_call, heap>>

unpeeked == [lib EXCEPT !.saw = NoToken]

\* Peekable::peek on a token that was not looked at yet: any token while the
\* stream has some, or its end
PeekableNext ==
    /\ status = "parser" /\ lib.rules # <<>> /\ lib.next = "?"
    /\ \/ /\ lib.remaining > 0
          /\ \E token \in ParserTokens :
                lib' = [lib EXCEPT !.next = token, !.remaining = @ - 1]
       \/ lib' = [lib EXCEPT !.next = "EoF", !.remaining = 0]
    /\ UNCHANGED <<pipeline_vars, frame_vars, op_call, heap>>

ParseStatements == in_rule({"parse_statements"}) /\ ran(parse_statements(unpeeked))

ParseBlockStatement ==
    in_rule({"parse_block_statement"}) /\ ran(parse_block_statement(unpeeked))

ParseFunction == in_rule({"parse_function"}) /\ ran(parse_function(unpeeked))

ParseLet == in_rule({"parse_let"}) /\ ran(parse_let(unpeeked))

ParseIf ==
    in_rule({"parse_if", "parse_if:elif", "parse_if:else"}) /\ ran(parse_if(unpeeked))

ParseLoop == in_rule({"parse_loop"}) /\ ran(parse_loop(unpeeked))

ParseFor == in_rule({"parse_for"}) /\ ran(parse_for(unpeeked))

ParseAssignment ==
    in_rule({"parse_assignment", "parse_assignment:operator"})
    /\ ran(parse_assignment(unpeeked))

ParseExpression ==
    in_rule({"parse_expression", "parse_expression:operator"})
    /\ ran(parse_expression(unpeeked))

ParseExpr1Terminal ==
    in_rule({"parse_expr_1_terminal"}) /\ ran(parse_expr_1_terminal(unpeeked))

ParseExpr2Unary ==
    in_rule({"parse_expr_2_unary", "parse_expr_2_unary:suffix",
             "parse_expr_2_unary:arguments", "parse_expr_2_unary:comma",
             "parse_expr_2_unary:end"})
    /\ ran(parse_expr_2_unary(unpeeked))

Expect == in_rule({"expect"}) /\ ran(expect(unpeeked))

ExpectResync ==
    in_rule({"expect_resync", "expect_resync:loop"}) /\ ran(expect_resync(unpeeked))

NextParser ==
    \/ PeekableNext
    \/ ParseStatements \/ ParseBlockStatement \/ ParseFunction \/ ParseLet
    \/ ParseIf \/ ParseLoop \/ ParseFor \/ ParseAssignment
    \/ ParseExpression \/ ParseExpr1Terminal \/ ParseExpr2Unary
    \/ Expect \/ ExpectResync

SpecParser == InitParser /\ [][NextParser]_vars

----------------------------------------------------------------------------
(* Properties of the parser                                                 *)

\* control is at the head of the loop of parse_statements
at_statements ==
    status = "parser" /\ lib.rules # <<>> /\ Head(lib.rules).pc = "parse_statements"

\* C25: every round of the loop of parse_statements takes at least one token
\* or sets the error flag: no statement rule, the one for `let` included,
\* returns to the loop with the input position and the error flag unchanged
\* (so parse() terminates on every finite token stream).
C25_StatementProgress == at_statements => ~no_progress(lib)

\* parse_let has returned to the loop with `let` still the next token
C25_Witness ==
    /\ at_statements
    /\ Head(lib.rules).mark.set /\ Head(lib.rules).mark.rule = "parse_let"
    /\ no_progress(lib)
    /\ lib.next = "KeywordLet" /\ ~lib.error

in_error_mode == status = "parser" /\ lib.rules # <<>> /\ lib.error

resynchronizing == Head(lib.rules).pc \in {"expect_resync", "expect_resync:loop"}

\* C26: while the error flag is set, a step outside expect_resync gets None
\* from peek, takes no token other than NewLine, records no error and leaves
\* the flag set; no step records a second error; the flag is cleared only by
\* expect_resync taking the token it expects.
C26_ErrorMode ==
    [][in_error_mode =>
          /\ Len(lib'.errors) = Len(lib.errors)
          /\ ~resynchronizing =>
                /\ lib'.error
                /\ lib'.taken = lib.taken
                /\ ~lib'.saw.some
          /\ ~lib'.error =>
                /\ resynchronizing
                /\ lib.next = Head(lib.rules).token
                /\ lib'.taken = lib.taken + 1]_vars

\* an error was recorded and expect_resync has cleared the flag at its token
C26_Witness ==
    /\ status = "parser"
    /\ Len(lib.errors) = 1
    /\ ~lib.error
    /\ lib.taken >= 2

----------------------------------------------------------------------------
(* The errors of the operators (vm::operator, and the OpPow and OpSub arms  *)
(* of VirtualMachine::run)                                                  *)

\* bit k of the two's complement form of x
bit_of(x, k) == ((x % pow(2, IntBits)) \div pow(2, k)) % 2

bit_and(p, q) == p * q
bit_or(p, q) == p + q - p * q
bit_xor(p, q) == (p + q) % 2

RECURSIVE bits_from(_, _, _, _)
bits_from(f, x, y, k) ==
    IF k = IntBits THEN 0
    ELSE LET b == CASE f = "&" -> bit_and(bit_of(x, k), bit_of(y, k))
                    [] f = "|" -> bit_or(bit_of(x, k), bit_of(y, k))
                    [] f = "^" -> bit_xor(bit_of(x, k), bit_of(y, k))
         IN  b * pow(2, k) + bits_from(f, x, y, k + 1)

\* `i1 & i2`, `i1 | i2`, `i1 ^ i2` on i64
bitwise(f, x, y) == wrap(bits_from(f, x, y, 0))

\* i64::pow: with overflow checks an overflow panics, without them it wraps
int_pow(b, e, build) ==
    IF representable(pow(b, e)) THEN Done(pow(b, e))
    ELSE IF build = "debug" THEN Overflow ELSE Done(wrap(pow(b, e)))

\* `i1 - i2` on i64
int_sub(x, y, build) ==
    IF representable(x - y) THEN Done(x - y)
    ELSE IF build = "debug" THEN Overflow ELSE Done(wrap(x - y))

binary_pow(a1, a2, build) ==
    IF is_int(a1) /\ is_int(a2) /\ a2.v > 0
    THEN shifted(int_pow(a1.v, a2.v, build))
    ELSE Err(TypeErrorBinaryOp("OpMod", a1, a2))

binary_sub(a1, a2, build) ==
    IF is_int(a1) /\ is_int(a2)
    THEN shifted(int_sub(a1.v, a2.v, build))
    ELSE Err(TypeErrorBinaryOp("OpSub", a1, a2))

binary_bitwise_and(a1, a2) ==
    IF is_int(a1) /\ is_int(a2)
    THEN Ok(VInt(bitwise("&", a1.v, a2.v)))
    ELSE Err(TypeErrorBinaryOp("OpBitwiseAnd", a1, a2))

binary_bitwise_or(a1, a2) ==
    IF is_int(a1) /\ is_int(a2)
    THEN Ok(VInt(bitwise("|", a1.v, a2.v)))
    ELSE Err(TypeErrorBinaryOp("OpBitwiseAnd", a1, a2))

binary_bitwise_xor(a1, a2) ==
    IF is_int(a1) /\ is_int(a2)
    THEN Ok(VInt(bitwise("^", a1.v, a2.v)))
    ELSE Err(TypeErrorBinaryOp("OpBitwiseAnd", a1, a2))

\* the unary operator functions, by the opcode they implement
unary_operator(op, a1) ==
    CASE op = "UnarySub" -> unary_sub(a1)
      [] op = "UnaryLogicalNot" -> unary_logical_not(a1)
      [] op = "UnaryBitwiseNot" -> unary_bitwise_not(a1)

\* the binary operator functions, by the opcode they implement
binary_operator(op, a1, a2, build) ==
    CASE op = "OpDiv" -> binary_div(a1, a2, build)
      [] op = "OpMod" -> binary_mod(a1, a2)
      [] op = "OpPow" -> binary_pow(a1, a2, build)
      [] op = "OpSub" -> binary_sub(a1, a2, build)
      [] op = "OpLeftShift" -> binary_left_shift(a1, a2, build)
      [] op = "OpRightShift" -> binary_right_shift(a1, a2, build)
      [] op = "OpBitwiseAnd" -> binary_bitwise_and(a1, a2)
      [] op = "OpBitwiseOr" -> binary_bitwise_or(a1, a2)
      [] op = "OpBitwiseXor" -> binary_bitwise_xor(a1, a2)

BinaryFunctions ==
    {"OpDiv", "OpMod", "OpPow", "OpSub", "OpLeftShift", "OpRightShift",
     "OpBitwiseAnd", "OpBitwiseOr", "OpBitwiseXor"}

\* VirtualMachine::run (OpPow) on two popped operands
vm_pow(a1, a2, build) ==
    IF is_int(a1) /\ is_int(a2) /\ a2.v > 0
    THEN shifted(int_pow(a1.v, a2.v, build))
    ELSE vm_op_pow(a1, a2)

\* VirtualMachine::run (OpSub) on two popped operands
vm_sub(a1, a2, build) ==
    IF is_int(a1) /\ is_int(a2) /\ a2.v > 0
    THEN shifted(int_sub(a1.v, a2.v, build))
    ELSE vm_op_sub(a1, a2)

\* the operands: integers of either sign, and values of other types
ErrorOperands ==
    {VInt(i) : i \in i64_MIN..i64_MAX} \cup {VNil, VBool(TRUE), VList(<<>>)}

InitOperatorErrors ==
    /\ NoFrames
    /\ src = NoSource /\ enable_opt = FALSE /\ ast = NoSource /\ code = <<>>
    /\ ip = 0 /\ stack = <<>> /\ globals = new_globals /\ output = <<>>
    /\ status = "operator errors" /\ error = NoError /\ last = NoOpcode /\ trace = <<>>
    /\ heap = <<>> /\ lib = NoCall
    /\ op_call \in [f : {"args"}, a1 : ErrorOperands, a2 : ErrorOperands, build : Builds]

applied(how, op, ret) ==
    [f |-> how, op |-> op, a1 |-> op_call.a1, a2 |-> op_call.a2,
     build |-> op_call.build, ret |-> ret]

UnaryOperator ==
    /\ op_call.f = "args"
    /\ \E op \in UnaryOps : op_call' = applied("unary", op, unary_operator(op, op_call.a1))
    /\ UNCHANGED <<pipeline_vars, frame_vars, heap, lib>>

BinaryOperator ==
    /\ op_call.f = "args"
    /\ \E op \in BinaryFunctions :
          op_call' = applied("binary", op,
                             binary_operator(op, op_call.a1, op_call.a2, op_call.build))
    /\ UNCHANGED <<pipeline_vars, frame_vars, heap, lib>>

VmPow ==
    /\ op_call.f = "args"
    /\ op_call' = applied("binary", "OpPow", vm_pow(op_call.a1, op_call.a2, op_call.build))
    /\ UNCHANGED <<pipeline_vars, frame_vars, heap, lib>>

VmSub ==
    /\ op_call.f = "args"
    /\ op_call' = applied("vm", "OpSub", vm_sub(op_call.a1, op_call.a2, op_call.build))
    /\ UNCHANGED <<pipeline_vars, frame_vars, heap, lib>>

NextOperatorErrors == UnaryOperator \/ BinaryOperator \/ VmPow \/ VmSub

SpecOperatorErrors == InitOperatorErrors /\ [][NextOperatorErrors]_vars

\* an operator has returned an error (and has not panicked)
operator_failed ==
    /\ op_call.f \in {"unary", "binary"}
    /\ ~op_call.ret.ok /\ op_call.ret # Panic

\* C27: when a unary or binary operator is applied to operands it does not
\* support, the error it returns is TypeErrorUnaryOp or TypeErrorBinaryOp
\* carrying the opcode of the operator that was applied, and the offending
\* operands in (left, right) order.
C27_OperatorErrorOpcode ==
    operator_failed =>
        IF op_call.f = "unary"
        THEN op_call.ret.e = TypeErrorUnaryOp(op_call.op, op_call.a1)
        ELSE op_call.ret.e = TypeErrorBinaryOp(op_call.op, op_call.a1, op_call.a2)

\* `**` applied to 2 and 0 has failed, and the error names OpMod
C27_Witness ==
    /\ op_call.f = "binary" /\ op_call.op = "OpPow"
    /\ op_call.a1 = VInt(2) /\ op_call.a2 = VInt(0)
    /\ op_call.ret = Err(TypeErrorBinaryOp("OpMod", VInt(2), VInt(0)))

\* the machine has evaluated `a - b` on two ints whose difference is an i64
int_subtraction ==
    /\ op_call.f = "vm" /\ op_call.op = "OpSub"
    /\ is_int(op_call.a1) /\ is_int(op_call.a2)
    /\ representable(op_call.a1.v - op_call.a2.v)

\* C28: integer subtraction is total: for all ints a and b of either sign,
\* including b = 0 and b < 0, the machine evaluates `a - b` to the integer
\* difference a - b and raises no error.
C28_SubtractionTotal ==
    int_subtraction => op_call.ret = Ok(VInt(op_call.a1.v - op_call.a2.v))

\* the machine has evaluated `5 - 0` and raised TypeErrorBinaryOp(OpSub, 5, 0)
C28_Witness ==
    /\ int_subtraction
    /\ op_call.a1 = VInt(5) /\ op_call.a2 = VInt(0)
    /\ op_call.ret = Err(TypeErrorBinaryOp("OpSub", VInt(5), VInt(0)))

----------------------------------------------------------------------------
(* The scanner (compiler::scanner), one step of a loop at a time            *)

\* the longest source text
MaxSource == 4

\* the characters of the source texts: two digits, a letter (which is also
\* the binary prefix), the underscore, a blank, a parenthesis, the single
\* quote and the backslash
SourceChars == {"0", "1", "b", "_", " ", ")", "'", "\\"}
DecimalDigits == {"0", "1"}
BinaryDigits == {"0", "1"}
Letters == {"b"}

SourceTexts == UNION {[1..n -> SourceChars] : n \in 0..MaxSource}

\* enum ScanToken
Identifier(string) == [t |-> "Identifier", v |-> string]
StringLiteral(string) == [t |-> "StringLiteral", v |-> string]
IntToken(i) == [t |-> "Int", v |-> i]
CloseParen == [t |-> "CloseParen"]
Underscore == [t |-> "Underscore"]

\* enum ScanErrorType
InvalidNumericPrefix(c) == [t |-> "InvalidNumericPrefix", c |-> c]
InvalidNumericValue == [t |-> "InvalidNumericValue"]
InvalidCharacter(c) == [t |-> "InvalidCharacter", c |-> c]
UnterminatedStringLiteral == [t |-> "UnterminatedStringLiteral"]

ScanError(e, lineno) == [error |-> e, lineno |-> lineno]

digit_value(c) == IF c = "1" THEN 1 ELSE 0

\* i64::from_str_radix on a buffer of digits: the empty buffer is an error;
\* a buffer of at most MaxSource digits is below 2^63
RECURSIVE radix_value(_, _)
radix_value(buffer, radix) ==
    IF buffer = <<>> THEN 0
    ELSE radix_value(SubSeq(buffer, 1, Len(buffer) - 1), radix) * radix
            + digit_value(buffer[Len(buffer)])

from_str_radix(buffer, radix) ==
    IF buffer = <<>> THEN Err(InvalidNumericValue)
    ELSE Ok(radix_value(buffer, radix))

\* Scanner::push, Scanner::push_err
scanner_push(s, token) == [s EXCEPT !.tokens = Append(@, token)]
scanner_push_err(s, e) == [s EXCEPT !.errors = Append(@, ScanError(e, s.lineno))]

\* Scanner::peek
scanner_peek(s) == IF s.chars = <<>> THEN NoChar ELSE SomeChar(Head(s.chars))

\* Scanner::advance: the scanner after the next character is taken
scanner_advance(s) ==
    IF s.chars = <<>> THEN s
    ELSE IF Head(s.chars) = "\n"
         THEN [s EXCEPT !.chars = Tail(@), !.lineno = @ + 1,
                        !.tokens = Append(@, [t |-> "NewLine"])]
         ELSE [s EXCEPT !.chars = Tail(@)]

\* Scanner::push_advance
push_advance(s) == [scanner_advance(s) EXCEPT !.buffer = Append(@, Head(s.chars))]

\* Scanner::screen_identifier: no keyword is spelled with the letters here
screen_identifier(s) == scanner_push(s, Identifier(s.buffer))

\* Scanner::screen_int
screen_int(s, radix) ==
    LET r == from_str_radix(s.buffer, radix)
    IN  IF r.ok THEN scanner_push(s, IntToken(r.v)) ELSE scanner_push_err(s, r.e)

at_loop(s, pc) == [s EXCEPT !.pc = pc]

\* Scanner::scan, the arm of the character c just taken
scan_char(s, c) ==
    CASE c = " " -> s
      [] c \in Letters -> at_loop([s EXCEPT !.buffer = <<c>>], "identifier")
      [] c = "0" ->
            LET next == scanner_peek(s)
            IN  CASE next = SomeChar("b") ->
                        at_loop([scanner_advance(s) EXCEPT !.buffer = <<>>], "binary")
                  [] next = NoChar -> s
                  [] OTHER -> scanner_push_err(s, InvalidNumericPrefix(next.c))
      [] c \in DecimalDigits \ {"0"} -> at_loop([s EXCEPT !.buffer = <<c>>], "decimal")
      [] c = "'" -> at_loop([s EXCEPT !.buffer = <<>>, !.escaped = FALSE], "string")
      [] c = ")" -> scanner_push(s, CloseParen)
      [] c = "_" -> scanner_push(s, Underscore)
      [] OTHER -> scanner_push_err(s, InvalidCharacter(c))

\* one turn of a loop that collects digits into the buffer
scan_digits(s, digits, radix) ==
    LET next == scanner_peek(s)
    IN  CASE next \in {SomeChar(d) : d \in digits} -> push_advance(s)
          [] next = SomeChar("_") -> scanner_advance(s)
          [] OTHER -> at_loop(screen_int(s, radix), "scan")

\* one turn of the loop of an identifier
scan_identifier(s) ==
    IF scanner_peek(s) \in {SomeChar(c) : c \in Letters \cup DecimalDigits \cup {"_"}}
    THEN push_advance(s)
    ELSE at_loop(screen_identifier(s), "scan")

\* one turn of the loop of a string literal: `escaped` is set by a backslash
\* and never cleared
scan_string(s) ==
    LET next == scanner_peek(s)
        taken == scanner_advance(s)
    IN  CASE next = SomeChar("'") /\ ~s.escaped ->
                at_loop(scanner_push(taken, StringLiteral(s.buffer)), "scan")
          [] next = SomeChar("\\") /\ ~s.escaped -> [taken EXCEPT !.escaped = TRUE]
          [] next = NoChar ->
                at_loop(scanner_push(scanner_push_err(taken, UnterminatedStringLiteral),
                                     StringLiteral(s.buffer)), "scan")
          [] OTHER -> [taken EXCEPT !.buffer = Append(@, next.c)]

\* scanner::scan: a new Scanner over the text
new_scanner(text) ==
    [f |-> "scan", pc |-> "scan", text |-> text, chars |-> text,
     tokens |-> <<>>, errors |-> <<>>, lineno |-> 0, buffer |-> <<>>, escaped |-> FALSE]

InitScanner ==
    /\ NoFrames
    /\ src = NoSource /\ enable_opt = FALSE /\ ast = NoSource /\ code = <<>>
    /\ ip = 0 /\ stack = <<>> /\ globals = new_globals /\ output = <<>>
    /\ status = "scanner" /\ error = NoError /\ last = NoOpcode /\ trace = <<>>
    /\ heap = <<>> /\ op_call = NoCall
    /\ \E text \in SourceTexts : lib = new_scanner(text)

scanning(pc) == lib.f = "scan" /\ lib.pc = pc

\* the outer loop takes a character and runs its arm
ScanChar ==
    /\ scanning("scan") /\ lib.chars # <<>>
    /\ lib' = scan_char(scanner_advance(lib), Head(lib.chars))
    /\ UNCHANGED <<pipeline_vars, frame_vars, op_call, heap>>

\* the outer loop finds the end of the text
ScanEnd ==
    /\ scanning("scan") /\ lib.chars = <<>>
    /\ lib' = at_loop(lib, "done")
    /\ UNCHANGED <<pipeline_vars, frame_vars, op_call, heap>>

ScanIdentifier ==
    /\ scanning("identifier")
    /\ lib' = scan_identifier(lib)
    /\ UNCHANGED <<pipeline_vars, frame_vars, op_call, heap>>

ScanDecimal ==
    /\ scanning("decimal")
    /\ lib' = scan_digits(lib, DecimalDigits, 10)
    /\ UNCHANGED <<pipeline_vars, frame_vars, op_call, heap>>

ScanBinary ==
    /\ scanning("binary")
    /\ lib' = scan_digits(lib, BinaryDigits, 2)
    /\ UNCHANGED <<pipeline_vars, frame_vars, op_call, heap>>

ScanString ==
    /\ scanning("string")
    /\ lib' = scan_string(lib)
    /\ UNCHANGED <<pipeline_vars, frame_vars, op_call, heap>>

NextScanner ==
    ScanChar \/ ScanEnd \/ ScanIdentifier \/ ScanDecimal \/ ScanBinary \/ ScanString

SpecScanner == InitScanner /\ [][NextScanner]_vars

\* scan has returned its ScanResult
scanned == scanning("done")

\* the text from position i on is the rest of a single-quoted literal in
\* which a backslash escapes the one character after it, and the literal
\* ends the text
RECURSIVE literal_body(_, _)
literal_body(text, i) ==
    IF i > Len(text) THEN FALSE
    ELSE IF text[i] = "'" THEN i = Len(text)
    ELSE IF text[i] = "\\" THEN literal_body(text, i + 2)
    ELSE literal_body(text, i + 1)

\* the text is one string literal, with an escape in it
escaped_literal(text) ==
    /\ text # <<>> /\ text[1] = "'"
    /\ literal_body(text, 2)
    /\ \E i \in 2..Len(text) : text[i] = "\\"

\* C29: inside a single-quoted string literal a backslash escapes only the
\* one character that follows it: a text that is one literal with an escape
\* in it scans to exactly one StringLiteral token and no
\* UnterminatedStringLiteral error.
C29_StringEscapes ==
    (scanned /\ escaped_literal(lib.text)) =>
        /\ Len(lib.tokens) = 1 /\ lib.tokens[1].t = "StringLiteral"
        /\ \A i \in 1..Len(lib.errors) : lib.errors[i].error # UnterminatedStringLiteral

\* the text '\b' has been scanned: the closing quote was taken into the
\* literal and the end of the text reported as UnterminatedStringLiteral
C29_Witness ==
    /\ scanned /\ lib.text = <<"'", "\\", "b", "'">>
    /\ lib.tokens = <<StringLiteral(<<"b", "'">>)>>
    /\ lib.errors = <<ScanError(UnterminatedStringLiteral, 0)>>

\* the text is a decimal integer literal: the single digit 0, or digits that
\* start with a digit other than 0, with underscores between them
decimal_literal(text) ==
    /\ text # <<>>
    /\ \A i \in 1..Len(text) : text[i] \in DecimalDigits \cup {"_"}
    /\ text[1] \in DecimalDigits /\ text[Len(text)] \in DecimalDigits
    /\ text[1] = "0" => Len(text) = 1

\* what may follow the literal: a blank, another token, or the end of input
Followers == {<<>>, <<" ">>, <<")">>}

\* the value of the literal, its underscores ignored
literal_value(text) ==
    LET is_digit(c) == c \in DecimalDigits
    IN  radix_value(SelectSeq(text, is_digit), 10)

\* the tokens of a literal and of what follows it
literal_tokens(text, follower) ==
    <<IntToken(literal_value(text))>> \o (IF follower = <<")">> THEN <<CloseParen>> ELSE <<>>)

\* C30: every decimal integer literal, the single digit 0 included, whether
\* it is followed by whitespace, by another token such as `)` or by the end
\* of input, scans to exactly one Int token holding its value (underscores
\* between digits are ignored) and records no scan error.
C30_DecimalLiterals ==
    scanned =>
        \A follower \in Followers :
            \A n \in 1..Len(lib.text) :
                (/\ lib.text = SubSeq(lib.text, 1, n) \o follower
                 /\ decimal_literal(SubSeq(lib.text, 1, n))) =>
                    /\ lib.tokens = literal_tokens(SubSeq(lib.text, 1, n), follower)
                    /\ lib.errors = <<>>

\* the text `0)` has been scanned: no Int token, and the parenthesis
\* reported as an invalid numeric prefix
C30_Witness ==
    /\ scanned /\ lib.text = <<"0", ")">>
    /\ lib.tokens = <<CloseParen>>
    /\ lib.errors = <<ScanError(InvalidNumericPrefix(")"), 0)>>

====
